---------------------------- MODULE Spec2Model ----------------------------
(***************************************************************************)
(* A state-machine model of the Vulkan resource helpers of ANGLE           *)
(* (src/libANGLE/renderer/vulkan/vk_helpers.cpp): DynamicBuffer,           *)
(* DynamicDescriptorPool, DynamicallyGrowingPool, ImageHelper.             *)
(*                                                                         *)
(* Every object of the program is one record-valued variable whose fields  *)
(* carry the member names of the source.  Each component has its own       *)
(* specification (SpecDynamicBuffer, SpecEntryPool, ...): the objects of   *)
(* the other components stay in their constructed state.                   *)
(*                                                                         *)
(* Integer widths.  TLC's integers are 32 bits wide, so size_t and         *)
(* uint32_t are modelled with scaled widths: 2^SizeTBits and 2^UInt32Bits  *)
(* with UInt32Bits < SizeTBits, as on an LP64 build (32 < 64).             *)
(***************************************************************************)
EXTENDS Integers, Sequences, FiniteSets, TLC

VARIABLES
    renderer,        \* the serial clock and the deferred-destroy sink (RendererVk)
    dynamicBuffer,   \* one DynamicBuffer
    dbLog,           \* what DynamicBuffer::allocate returned: result and ranges
    entryPool,       \* one DynamicallyGrowingPool (DynamicQueryPool)
    epLog,           \* live query entries and what the last pool call did
    descriptorPool,  \* one DynamicDescriptorPool
    bindings,        \* the callers' SharedDescriptorPoolBinding objects
    dpLog,           \* what the last descriptor pool call did
    image,           \* one ImageHelper
    commandBuffer,   \* the commands the last ImageHelper call recorded
    imLog,           \* the last ImageHelper call: its arguments and pre-state
    lineLoop,        \* the last LineLoopHelper call and what it wrote or recorded
    buffer,          \* one BufferHelper: its outstanding access masks
    bufLog,          \* the last BufferHelper call and what it recorded
    shader           \* one ShaderGL and the record of its native compiles

vars == <<renderer, dynamicBuffer, dbLog, entryPool, epLog, descriptorPool,
          bindings, dpLog, image, commandBuffer, imLog, lineLoop, buffer,
          bufLog, shader>>

dynamicBufferVars  == <<dynamicBuffer, dbLog>>
entryPoolVars      == <<entryPool, epLog>>
descriptorPoolVars == <<descriptorPool, bindings, dpLog>>
imageVars          == <<image, commandBuffer, imLog>>
lineLoopVars       == <<lineLoop>>
bufferVars         == <<buffer, bufLog>>
shaderVars         == <<shader>>

\* What the actions of one component leave alone.
exceptDynamicBuffer  == <<entryPoolVars, descriptorPoolVars, imageVars,
                          lineLoopVars, bufferVars, shaderVars>>
exceptEntryPool      == <<dynamicBufferVars, descriptorPoolVars, imageVars,
                          lineLoopVars, bufferVars, shaderVars>>
exceptDescriptorPool == <<dynamicBufferVars, entryPoolVars, imageVars,
                          lineLoopVars, bufferVars, shaderVars>>
exceptImage          == <<renderer, dynamicBufferVars, entryPoolVars,
                          descriptorPoolVars, lineLoopVars, bufferVars, shaderVars>>
exceptLineLoop       == <<dbLog, entryPoolVars, descriptorPoolVars, imageVars,
                          bufferVars, shaderVars>>
exceptBuffer         == <<renderer, dynamicBufferVars, entryPoolVars,
                          descriptorPoolVars, imageVars, lineLoopVars,
                          shaderVars>>
exceptShader         == <<renderer, dynamicBufferVars, entryPoolVars,
                          descriptorPoolVars, imageVars, lineLoopVars,
                          bufferVars>>

----------------------------------------------------------------------------
(* Bounds of the model.                                                    *)

UInt32Bits     == 4   \* scaled width of uint32_t
SizeTBits      == 6   \* scaled width of size_t
MaxSerial      == 2   \* the serial clock stops here
MaxBuffers     == 2   \* BufferHelper instances a DynamicBuffer may create
MaxAllocations == 2   \* successful allocate calls that are logged
MinSizeInit    == 12  \* the minSize given to the DynamicBuffer constructor

RECURSIVE Pow2(_)
Pow2(n) == IF n = 0 THEN 1 ELSE 2 * Pow2(n - 1)

UInt32Mod == Pow2(UInt32Bits)
SizeTMod  == Pow2(SizeTBits)

Max(a, b) == IF a >= b THEN a ELSE b

Range(s) == {s[i] : i \in 1..Len(s)}

----------------------------------------------------------------------------
(* RendererVk: the serial clock.  currentQueueSerial names the batch being *)
(* built, lastCompletedQueueSerial the highest batch known finished.       *)

RendererInit ==
    renderer = [currentQueueSerial       |-> 1,
                lastCompletedQueueSerial |-> 0,
                garbage                  |-> {}]

getCurrentQueueSerial == renderer.currentQueueSerial
getLastCompletedQueueSerial == renderer.lastCompletedQueueSerial

\* RendererVk::isSerialInUse
isSerialInUse(serial) == serial > renderer.lastCompletedQueueSerial

\* A batch is submitted: the next one is being built.
SubmitBatch ==
    /\ renderer.currentQueueSerial < MaxSerial
    /\ renderer' = [renderer EXCEPT !.currentQueueSerial = @ + 1]
    /\ UNCHANGED <<dynamicBufferVars, entryPoolVars, descriptorPoolVars, imageVars,
                   lineLoopVars, bufferVars, shaderVars>>

\* The GPU finishes the oldest unfinished batch.
CompleteBatch ==
    /\ renderer.lastCompletedQueueSerial + 1 < renderer.currentQueueSerial
    /\ renderer' = [renderer EXCEPT !.lastCompletedQueueSerial = @ + 1]
    /\ UNCHANGED <<dynamicBufferVars, entryPoolVars, descriptorPoolVars, imageVars,
                   lineLoopVars, bufferVars, shaderVars>>

----------------------------------------------------------------------------
(* DynamicBuffer                                                           *)

\* A roundUp that leaves the value as it is.
roundUpNever(value, alignment) == value

\* roundUp of common/mathutil.h, in size_t arithmetic.
roundUp(value, alignment) ==
    LET temp == (value + alignment - 1) % SizeTMod
    IN  temp - (temp % alignment)

Alignments == {1, 4}
AllocSizes == {0, 1, 4, 5, 8, UInt32Mod, UInt32Mod + 4, SizeTMod - 4}
MinSizes   == {4, MinSizeInit}

\* DynamicBuffer::DynamicBuffer followed by DynamicBuffer::init(alignment).
DynamicBufferInit ==
    /\ \E alignment \in Alignments :
         dynamicBuffer = [mHostVisible                 |-> TRUE,
                          mMinSize                     |-> MinSizeInit,
                          mBuffer                      |-> 0,
                          mNextAllocationOffset        |-> 0,
                          mLastFlushOrInvalidateOffset |-> 0,
                          mSize                        |-> 0,
                          mAlignment                   |-> alignment,
                          mRetainedBuffers             |-> <<>>,
                          created                      |-> 0,
                          aborted                      |-> FALSE]
    /\ dbLog = [result |-> "none", newBuffer |-> FALSE, allocations |-> <<>>]

DynamicBufferIdle ==
    /\ dynamicBuffer = [mHostVisible                 |-> TRUE,
                        mMinSize                     |-> MinSizeInit,
                        mBuffer                      |-> 0,
                        mNextAllocationOffset        |-> 0,
                        mLastFlushOrInvalidateOffset |-> 0,
                        mSize                        |-> 0,
                        mAlignment                   |-> 0,
                        mRetainedBuffers             |-> <<>>,
                        created                      |-> 0,
                        aborted                      |-> FALSE]
    /\ dbLog = [result |-> "none", newBuffer |-> FALSE, allocations |-> <<>>]

\* The condition of DynamicBuffer::flush and DynamicBuffer::invalidate.
NeedsFlush(db) ==
    db.mHostVisible /\ db.mNextAllocationOffset > db.mLastFlushOrInvalidateOffset

\* The state a successful DynamicBuffer::flush leaves.
Flushed(db) ==
    IF NeedsFlush(db)
    THEN [db EXCEPT !.mLastFlushOrInvalidateOffset = db.mNextAllocationOffset]
    ELSE db

\* The test of line 266: the checked sum is invalid or reaches mSize.
NeedsNewBuffer(db, sizeToAllocate) ==
    \/ db.mNextAllocationOffset + sizeToAllocate >= SizeTMod
    \/ db.mNextAllocationOffset + sizeToAllocate >= db.mSize

\* A retirement that forgets the old buffer instead of retaining it.
RetireAndForget(db) ==
    IF db.mBuffer # 0 THEN [Flushed(db) EXCEPT !.mBuffer = 0] ELSE db

\* Lines 268-275: the flushed current buffer moves to the retained list.
Retire(db) ==
    IF db.mBuffer # 0
    THEN [Flushed(db) EXCEPT !.mRetainedBuffers = Append(@, db.mBuffer),
                             !.mBuffer = 0]
    ELSE db

\* Lines 325-326: the cursor (a uint32_t) advanced by the size cast to
\* uint32_t.
AdvanceCursor(db, sizeToAllocate) ==
    [db EXCEPT !.mNextAllocationOffset =
                   (@ + (sizeToAllocate % UInt32Mod)) % UInt32Mod]

LogAllocation(db, sizeInBytes, newBuffer) ==
    [result      |-> "Continue",
     newBuffer   |-> newBuffer,
     allocations |-> Append(dbLog.allocations,
                            [buffer |-> db.mBuffer,
                             offset |-> db.mNextAllocationOffset,
                             size   |-> sizeInBytes])]

LogFailure(newBuffer) ==
    [dbLog EXCEPT !.result = "Stop", !.newBuffer = newBuffer]

\* DynamicBuffer::allocate(sizeInBytes) with ptrOut given, on the buffer db.
\* outcome names the native call that fails, if any: the flush of the old
\* buffer, the creation of the new one, or the map of the current one.
\* enabled: the outcome can happen in db; db: the members afterwards;
\* ready: the members when the range is handed out (line 325).
allocate(db, sizeInBytes, outcome) ==
    LET sizeToAllocate == roundUp(sizeInBytes, db.mAlignment)
        needNew        == NeedsNewBuffer(db, sizeToAllocate)
        retired        == [Retire(db) EXCEPT
                              !.mSize = Max(sizeToAllocate, db.mMinSize)]
        fresh          == [retired EXCEPT
                              !.mBuffer = db.created + 1,
                              !.created = db.created + 1,
                              !.mNextAllocationOffset = 0,
                              !.mLastFlushOrInvalidateOffset = 0]
        ready          == IF needNew THEN fresh ELSE db
    IN  [enabled   |-> CASE outcome = "flushFails" ->
                                needNew /\ db.mBuffer # 0 /\ NeedsFlush(db)
                         [] outcome = "initFails"  -> needNew
                         [] outcome = "mapFails"   -> needNew \/ db.mBuffer # 0
                         [] outcome = "nullBuffer" ->
                                \* ASSERT(mBuffer != nullptr) at line 309 fails
                                ~needNew /\ db.mBuffer = 0
                         [] outcome = "ok"         -> needNew \/ db.mBuffer # 0,
         db        |-> CASE outcome = "flushFails" -> db
                         [] outcome = "initFails"  -> retired
                         [] outcome = "mapFails"   -> ready
                         [] outcome = "nullBuffer" -> [db EXCEPT !.aborted = TRUE]
                         [] outcome = "ok"         ->
                                AdvanceCursor(ready, sizeToAllocate),
         ready     |-> ready,
         needNew   |-> needNew,
         newBuffer |-> needNew /\ outcome \in {"mapFails", "ok"}]

\* One call of DynamicBuffer::allocate on the modelled DynamicBuffer.
Allocate(sizeInBytes, outcome) ==
    LET call == allocate(dynamicBuffer, sizeInBytes, outcome)
    IN  /\ ~dynamicBuffer.aborted
        /\ Len(dbLog.allocations) < MaxAllocations
        /\ call.needNew => dynamicBuffer.created < MaxBuffers
        /\ call.enabled
        /\ dynamicBuffer' = call.db
        /\ dbLog' = IF outcome = "ok"
                    THEN LogAllocation(call.ready, sizeInBytes, call.needNew)
                    ELSE LogFailure(call.newBuffer)
        /\ UNCHANGED <<renderer, exceptDynamicBuffer>>

AllocateOutcomes == {"ok", "flushFails", "initFails", "mapFails", "nullBuffer"}

\* DynamicBuffer::flush and DynamicBuffer::invalidate; a failed native call
\* leaves the offsets alone.
FlushOrInvalidate(succeeds) ==
    /\ ~dynamicBuffer.aborted
    /\ NeedsFlush(dynamicBuffer)
    /\ dynamicBuffer' = IF succeeds THEN Flushed(dynamicBuffer) ELSE dynamicBuffer
    /\ dbLog' = [dbLog EXCEPT !.result = IF succeeds THEN "Continue" ELSE "Stop"]
    /\ UNCHANGED <<renderer, exceptDynamicBuffer>>

\* A reset that keeps the size of the buffer it forgets.
resetOffsets(db) ==
    [db EXCEPT !.mNextAllocationOffset = 0,
               !.mLastFlushOrInvalidateOffset = 0]

\* DynamicBuffer::reset
reset(db) ==
    [db EXCEPT !.mSize = 0,
               !.mNextAllocationOffset = 0,
               !.mLastFlushOrInvalidateOffset = 0]

\* BufferHelper::updateQueueSerial(current) then BufferHelper::release:
\* the buffers go to the deferred-destroy sink with that serial.
ReleaseToSink(buffers) ==
    [renderer EXCEPT !.garbage =
        @ \cup {[serial |-> getCurrentQueueSerial, buffer |-> b] : b \in buffers}]

\* DynamicBuffer::releaseRetainedBuffers
ReleaseRetainedBuffers ==
    /\ ~dynamicBuffer.aborted
    /\ renderer' = ReleaseToSink(Range(dynamicBuffer.mRetainedBuffers))
    /\ dynamicBuffer' = [dynamicBuffer EXCEPT !.mRetainedBuffers = <<>>]
    /\ dbLog' = [dbLog EXCEPT !.result = "none"]
    /\ UNCHANGED exceptDynamicBuffer

\* DynamicBuffer::release
Release ==
    /\ ~dynamicBuffer.aborted
    /\ renderer' = ReleaseToSink(Range(dynamicBuffer.mRetainedBuffers)
                                 \cup ({dynamicBuffer.mBuffer} \ {0}))
    /\ dynamicBuffer' = [reset(dynamicBuffer) EXCEPT !.mRetainedBuffers = <<>>,
                                                     !.mBuffer = 0]
    /\ dbLog' = [dbLog EXCEPT !.result = "none"]
    /\ UNCHANGED exceptDynamicBuffer

\* DynamicBuffer::destroy: the buffers are destroyed at once.
Destroy ==
    /\ ~dynamicBuffer.aborted
    /\ dynamicBuffer' = [reset(dynamicBuffer) EXCEPT !.mRetainedBuffers = <<>>,
                                                     !.mBuffer = 0]
    /\ dbLog' = [dbLog EXCEPT !.result = "none"]
    /\ UNCHANGED <<renderer, exceptDynamicBuffer>>

\* DynamicBuffer::setMinimumSizeForTesting
SetMinimumSizeForTesting(minSize) ==
    /\ ~dynamicBuffer.aborted
    /\ dynamicBuffer' = [dynamicBuffer EXCEPT !.mMinSize = minSize, !.mSize = 0]
    /\ dbLog' = [dbLog EXCEPT !.result = "none"]
    /\ UNCHANGED <<renderer, exceptDynamicBuffer>>

----------------------------------------------------------------------------
(* DynamicallyGrowingPool, as used by DynamicQueryPool.  mPoolStats holds  *)
(* one PoolStats per slab; slab i of the source is mPoolStats[i + 1] here, *)
(* and mCurrentPool counts from 1 likewise.                                *)

MaxPoolSize == 2   \* the largest poolSize given to DynamicQueryPool::init
MaxEntryPools == 2 \* slabs a pool may create

\* epLog before the first call.  queries: the entries that are allocated;
\* issued: every entry ever handed out; freedAt[i]: the queue serial that
\* was current at the most recent free of an entry of slab i; freed: the
\* entries freed since their slab was last made current.
NoPoolEntries ==
    [queries |-> {}, result |-> "none", reclaimed |-> 0, created |-> 0,
     issued |-> {}, freedAt |-> [i \in 1..MaxEntryPools |-> 0],
     freed |-> {}]

\* DynamicQueryPool::init(poolSize): initEntryPool, then allocateNewPool
\* finds no slab to reuse and appends the first one.
EntryPoolInit ==
    /\ \E poolSize \in 1..MaxPoolSize :
         entryPool = [mPoolSize         |-> poolSize,
                      mPoolStats        |-> <<[freedCount |-> 0, serial |-> 0]>>,
                      mCurrentPool      |-> 1,
                      mCurrentFreeEntry |-> 0]
    /\ epLog = NoPoolEntries

EntryPoolIdle ==
    /\ entryPool = [mPoolSize         |-> 0,
                    mPoolStats        |-> <<>>,
                    mCurrentPool      |-> 0,
                    mCurrentFreeEntry |-> 0]
    /\ epLog = NoPoolEntries

\* A findFreeEntryPool that forgets the serial.
IsFreeEntryPoolIgnoringSerial(ep, i) ==
    ep.mPoolStats[i].freedCount = ep.mPoolSize

\* A findFreeEntryPool content with one freed entry.
IsFreeEntryPoolWhenAnyFreed(ep, i) ==
    /\ ep.mPoolStats[i].freedCount >= 1
    /\ ep.mPoolStats[i].serial <= getLastCompletedQueueSerial

\* The test of findFreeEntryPool on slab i (lines 610-611).
IsFreeEntryPool(ep, i) ==
    /\ ep.mPoolStats[i].freedCount = ep.mPoolSize
    /\ ep.mPoolStats[i].serial <= getLastCompletedQueueSerial

\* The slab findFreeEntryPool selects: the first free one, 0 when it
\* returns false.
FreeEntryPoolIndex(ep) ==
    LET free == {i \in 1..Len(ep.mPoolStats) : IsFreeEntryPool(ep, i)}
    IN  IF free = {} THEN 0 ELSE CHOOSE i \in free : \A j \in free : i <= j

\* A findFreeEntryPool that leaves the freedCount of the slab it selects.
findFreeEntryPoolKeepingCount(ep, i) ==
    [ep EXCEPT !.mCurrentPool = i,
               !.mCurrentFreeEntry = 0]

\* findFreeEntryPool returning true with slab i.
findFreeEntryPool(ep, i) ==
    [ep EXCEPT !.mCurrentPool = i,
               !.mCurrentFreeEntry = 0,
               !.mPoolStats[i].freedCount = 0]

\* allocateNewEntryPool
allocateNewEntryPool(ep) ==
    [ep EXCEPT !.mPoolStats = Append(@, [freedCount |-> 0, serial |-> 0]),
               !.mCurrentPool = Len(ep.mPoolStats) + 1,
               !.mCurrentFreeEntry = 0]

\* An allocateNewPool that never looks for a slab to reuse.
allocateNewPoolAlways(ep) == allocateNewEntryPool(ep)

\* DynamicQueryPool::allocateNewPool when the native pool can be created.
allocateNewPool(ep) ==
    IF FreeEntryPoolIndex(ep) # 0
    THEN findFreeEntryPool(ep, FreeEntryPoolIndex(ep))
    ELSE allocateNewEntryPool(ep)

\* DynamicQueryPool::allocateQuery.  nativeOk: vkCreateQueryPool succeeds,
\* should it be called.
AllocateQuery(nativeOk) ==
    LET exhausted == entryPool.mCurrentFreeEntry >= entryPool.mPoolSize
        found     == FreeEntryPoolIndex(entryPool)
        ep        == IF exhausted THEN allocateNewPool(entryPool) ELSE entryPool
    IN  /\ (exhausted /\ found = 0) => Len(entryPool.mPoolStats) < MaxEntryPools
        /\ IF exhausted /\ found = 0 /\ ~nativeOk
           THEN /\ entryPool' = entryPool
                /\ epLog' = [epLog EXCEPT !.result = "Stop", !.reclaimed = 0,
                                          !.created = 0]
           ELSE /\ nativeOk
                /\ entryPool' = [ep EXCEPT !.mCurrentFreeEntry = @ + 1]
                /\ epLog' = [queries   |-> epLog.queries \cup
                                           {[pool  |-> ep.mCurrentPool,
                                             entry |-> ep.mCurrentFreeEntry]},
                             result    |-> "Continue",
                             reclaimed |-> IF exhausted THEN found ELSE 0,
                             created   |-> IF exhausted /\ found = 0
                                           THEN ep.mCurrentPool ELSE 0,
                             issued    |-> epLog.issued \cup
                                           {[pool  |-> ep.mCurrentPool,
                                             entry |-> ep.mCurrentFreeEntry]},
                             freedAt   |-> epLog.freedAt,
                             freed     |->
                                 IF exhausted
                                 THEN {f \in epLog.freed :
                                          f.pool # ep.mCurrentPool}
                                 ELSE epLog.freed]
        /\ UNCHANGED <<renderer, exceptEntryPool>>

\* An onEntryFreed that counts the free but leaves the serial of the slab.
onEntryFreedUnstamped(ep, poolIndex) ==
    [ep EXCEPT !.mPoolStats[poolIndex].freedCount = @ + 1]

\* onEntryFreed
onEntryFreed(ep, poolIndex) ==
    [ep EXCEPT !.mPoolStats[poolIndex].serial = getCurrentQueueSerial,
               !.mPoolStats[poolIndex].freedCount = @ + 1]

\* DynamicQueryPool::freeQuery of a query that holds an entry; the
\* QueryHelper is deinitialised, so no entry is freed twice.
FreeQuery(query) ==
    /\ query \in epLog.queries
    /\ entryPool' = onEntryFreed(entryPool, query.pool)
    /\ epLog' = [queries |-> epLog.queries \ {query}, result |-> "none",
                 reclaimed |-> 0, created |-> 0, issued |-> epLog.issued,
                 freedAt |-> [epLog.freedAt EXCEPT
                                 ![query.pool] = renderer.currentQueueSerial],
                 freed |-> epLog.freed \cup {query}]
    /\ UNCHANGED <<renderer, exceptEntryPool>>

----------------------------------------------------------------------------
(* DynamicDescriptorPool.  mDescriptorPools[i + 1] here is pool i of the   *)
(* source, mCurrentPoolIndex counts from 1, and a binding holds the index  *)
(* of the pool it references, 0 when it is not valid.  Of each             *)
(* DescriptorPoolHelper the model also keeps what the native pool was      *)
(* created with (maxSets), how many sets were asked of it since (taken)   *)
(* and, where tracksUse is set, the queue serial that was current when     *)
(* sets were last allocated from it (usedAt, 0 when never).  dpLog.pool is the pool the last call initialised.  *)

kMaxPools         == 3  \* 99999 in the source (line 568), scaled
MaxSetsPerPool    == 2  \* the largest mMaxSetsPerPool (128 by default, line 32)
MaxSetCount       == 3  \* the largest descriptorSetCount requested
MaxDescriptorPools == 3 \* entries mDescriptorPools may grow to in the model

Bindings == {1, 2}

NewDescriptorPoolHelper ==
    [mFreeDescriptorSets |-> 0, serial |-> 0, refCount |-> 0, valid |-> FALSE,
     maxSets |-> 0, taken |-> 0, usedAt |-> 0]

\* DescriptorPoolHelper::init(poolSizes, maxSets); nativeOk: the native
\* pool is created.
DescriptorPoolHelperInit(pool, maxSets, nativeOk) ==
    [pool EXCEPT !.mFreeDescriptorSets = maxSets,
                 !.valid = nativeOk,
                 !.maxSets = IF nativeOk THEN maxSets ELSE 0,
                 !.taken = 0,
                 !.usedAt = 0]

\* A hasCapacity that wants one set to spare.
hasCapacityToSpare(pool, descriptorSetCount) ==
    pool.mFreeDescriptorSets > descriptorSetCount

\* DescriptorPoolHelper::hasCapacity
hasCapacity(pool, descriptorSetCount) ==
    pool.mFreeDescriptorSets >= descriptorSetCount

\* RefCounted::isReferenced
isReferenced(pool) == pool.refCount > 0

NoPoolCall == [result |-> "none", newPool |-> "none", pool |-> 0]

\* A pool the native allocator was asked for more sets than it was created
\* with; the model follows a pool no further than that.
Overdrawn(dp) ==
    \E i \in 1..Len(dp.mDescriptorPools) :
        dp.mDescriptorPools[i].taken > dp.mDescriptorPools[i].maxSets

\* DynamicDescriptorPool::DynamicDescriptorPool; kDefaultDescriptorPoolMaxSets
\* is 128 in the source and MaxSetsPerPool here.
NewDynamicDescriptorPool ==
    [mMaxSetsPerPool   |-> MaxSetsPerPool,
     mCurrentPoolIndex |-> 1,
     mDescriptorPools  |-> <<>>,
     aborted           |-> FALSE,
     tracksUse         |-> FALSE]

\* DynamicDescriptorPool::setMaxSetsPerPoolForTesting
setMaxSetsPerPoolForTesting(dp, maxSetsPerPool) ==
    [dp EXCEPT !.mMaxSetsPerPool = maxSetsPerPool]

\* DynamicDescriptorPool::init; its ASSERTs want it to be the first call
\* that creates a pool.
DynamicDescriptorPoolInit(dp) ==
    [dp EXCEPT !.mDescriptorPools =
        Append(@, DescriptorPoolHelperInit(NewDescriptorPoolHelper,
                                           dp.mMaxSetsPerPool, TRUE))]

\* The pool after construction, an optional setMaxSetsPerPoolForTesting,
\* and a successful init.
DescriptorPoolInit ==
    /\ \E maxSets \in 1..MaxSetsPerPool :
         descriptorPool =
             DynamicDescriptorPoolInit(
                 setMaxSetsPerPoolForTesting(NewDynamicDescriptorPool, maxSets))
    /\ bindings = [b \in Bindings |-> 0]
    /\ dpLog = NoPoolCall

\* The same pool with the use of its descriptor sets recorded.
DescriptorReuseInit ==
    /\ \E maxSets \in 1..MaxSetsPerPool :
         descriptorPool =
             [DynamicDescriptorPoolInit(
                  setMaxSetsPerPoolForTesting(NewDynamicDescriptorPool, maxSets))
              EXCEPT !.tracksUse = TRUE]
    /\ bindings = [b \in Bindings |-> 0]
    /\ dpLog = NoPoolCall

DescriptorPoolIdle ==
    /\ descriptorPool = NewDynamicDescriptorPool
    /\ bindings = [b \in Bindings |-> 0]
    /\ dpLog = NoPoolCall

\* An allocateNewPool that forgets the serial.
IsReusablePoolIgnoringSerial(dp, i) ==
    ~isReferenced(dp.mDescriptorPools[i])

\* The test of allocateNewPool on pool i (lines 554-555).
IsReusablePool(dp, i) ==
    /\ ~isReferenced(dp.mDescriptorPools[i])
    /\ ~isSerialInUse(dp.mDescriptorPools[i].serial)

\* The pool the loop of allocateNewPool stops at, 0 when none is found.
ReusablePoolIndex(dp) ==
    LET found == {i \in 1..Len(dp.mDescriptorPools) : IsReusablePool(dp, i)}
    IN  IF found = {} THEN 0 ELSE CHOOSE i \in found : \A j \in found : i <= j

\* DynamicDescriptorPool::allocateNewPool up to its last line: the pool
\* chosen or appended is the current one.
SelectPool(dp) ==
    IF ReusablePoolIndex(dp) # 0
    THEN [dp EXCEPT !.mCurrentPoolIndex = ReusablePoolIndex(dp)]
    ELSE [dp EXCEPT !.mDescriptorPools = Append(@, NewDescriptorPoolHelper),
                    !.mCurrentPoolIndex = Len(dp.mDescriptorPools) + 1]

\* An ANGLE_VK_CHECK that lets the pools reach kMaxPools.
TooManyPoolsBeyondCeiling(dp) ==
    /\ ReusablePoolIndex(dp) = 0
    /\ ~(Len(dp.mDescriptorPools) + 1 <= kMaxPools)

\* The ANGLE_VK_CHECK of line 569 fails.
TooManyPools(dp) ==
    /\ ReusablePoolIndex(dp) = 0
    /\ ~(Len(dp.mDescriptorPools) + 1 < kMaxPools)

\* DynamicDescriptorPool::allocateNewPool
DescriptorAllocateNewPool(dp, nativeOk) ==
    IF TooManyPools(dp)
    THEN SelectPool(dp)
    ELSE LET sel == SelectPool(dp)
         IN  [sel EXCEPT !.mDescriptorPools[sel.mCurrentPoolIndex] =
                 DescriptorPoolHelperInit(@, dp.mMaxSetsPerPool, nativeOk)]

\* BindingPointer::set on binding b: the old pool loses a reference, the
\* new one gains one.
SetBinding(pools, old, new) ==
    LET dropped == IF old # 0
                   THEN [pools EXCEPT ![old].refCount = @ - 1]
                   ELSE pools
    IN  [dropped EXCEPT ![new].refCount = @ + 1]

\* DescriptorPoolHelper::allocateSets: the counter is a uint32_t.
TakeSets(pool, descriptorSetCount) ==
    [pool EXCEPT !.mFreeDescriptorSets = (@ - descriptorSetCount) % UInt32Mod,
                 !.taken = @ + descriptorSetCount]

\* The entries mDescriptorPools is followed to: one past the ceiling in
\* the specification of pool reuse.
PoolsModelled(dp) ==
    IF dp.tracksUse THEN MaxDescriptorPools + 1 ELSE MaxDescriptorPools

\* DynamicDescriptorPool::allocateSets(descriptorSetCount, bindingOut).
\* poolOk: the native pool of allocateNewPool is created; setsOk:
\* vkAllocateDescriptorSets succeeds; asserts: the build has ASSERT enabled.
AllocateSets(descriptorSetCount, b, poolOk, setsOk, asserts) ==
    LET dp        == descriptorPool
        bound     == bindings[b]
        rebind    == IF bound = 0
                     THEN TRUE
                     ELSE ~hasCapacity(dp.mDescriptorPools[bound],
                                       descriptorSetCount)
        needPool  == IF rebind
                     THEN ~hasCapacity(dp.mDescriptorPools[dp.mCurrentPoolIndex],
                                       descriptorSetCount)
                     ELSE FALSE
        withPool  == IF needPool THEN DescriptorAllocateNewPool(dp, poolOk) ELSE dp
        poolFails == needPool /\ (TooManyPools(dp) \/ ~poolOk)
        stamped   == IF rebind /\ bound # 0
                     THEN [withPool EXCEPT !.mDescriptorPools[bound].serial =
                                               getCurrentQueueSerial]
                     ELSE withPool
        target    == IF rebind THEN stamped.mCurrentPoolIndex ELSE bound
        moved     == IF rebind
                     THEN [stamped EXCEPT !.mDescriptorPools =
                              SetBinding(@, bound, target)]
                     ELSE stamped
        fits      == hasCapacity(moved.mDescriptorPools[target], descriptorSetCount)
    IN  /\ ~dp.aborted /\ ~Overdrawn(dp)
        /\ needPool => Len(dp.mDescriptorPools) < PoolsModelled(dp)
        \* an outcome that the call does not reach is not enumerated
        /\ ~needPool => poolOk
        /\ poolFails => setsOk /\ ~asserts
        /\ ~poolFails => IF fits THEN ~asserts ELSE asserts => setsOk
        /\ IF poolFails
           THEN /\ descriptorPool' = withPool
                /\ bindings' = bindings
                /\ dpLog' = [result  |-> IF TooManyPools(dp)
                                         THEN "TOO_MANY_OBJECTS" ELSE "Stop",
                             newPool |-> "failed",
                             pool    |-> IF TooManyPools(dp)
                                         THEN 0 ELSE withPool.mCurrentPoolIndex]
           ELSE IF ~fits /\ asserts
           THEN \* ASSERT(mFreeDescriptorSets >= descriptorSetCount) fails
                /\ descriptorPool' = [moved EXCEPT !.aborted = TRUE]
                /\ bindings' = [bindings EXCEPT ![b] = target]
                /\ dpLog' = [result  |-> "assert",
                             newPool |-> IF ~needPool THEN "none"
                                         ELSE IF ReusablePoolIndex(dp) # 0
                                         THEN "reused" ELSE "appended",
                             pool    |-> IF needPool
                                         THEN withPool.mCurrentPoolIndex ELSE 0]
           ELSE /\ descriptorPool' =
                       [moved EXCEPT !.mDescriptorPools[target] =
                           [TakeSets(@, descriptorSetCount) EXCEPT
                               !.usedAt = IF /\ dp.tracksUse
                                             /\ setsOk
                                             /\ descriptorSetCount > 0
                                          THEN getCurrentQueueSerial ELSE @]]
                /\ bindings' = [bindings EXCEPT ![b] = target]
                /\ dpLog' = [result  |-> IF setsOk THEN "Continue" ELSE "Stop",
                             newPool |-> IF ~needPool THEN "none"
                                         ELSE IF ReusablePoolIndex(dp) # 0
                                         THEN "reused" ELSE "appended",
                             pool    |-> IF needPool
                                         THEN withPool.mCurrentPoolIndex ELSE 0]
        /\ UNCHANGED <<renderer, exceptDescriptorPool>>

\* A caller drops its binding (BindingPointer::reset).
ResetBinding(b) ==
    /\ ~descriptorPool.aborted
    /\ bindings[b] # 0
    /\ descriptorPool' = [descriptorPool EXCEPT
                             !.mDescriptorPools[bindings[b]].refCount = @ - 1]
    /\ bindings' = [bindings EXCEPT ![b] = 0]
    /\ dpLog' = NoPoolCall
    /\ UNCHANGED <<renderer, exceptDescriptorPool>>

----------------------------------------------------------------------------
(* ImageHelper: the layout table, changeLayout, the staged updates and     *)
(* mipmap generation.  commandBuffer holds the commands recorded by the    *)
(* last call, in order.  image.levelLayout is the layout each mip level is *)
(* in according to the barriers recorded so far, image.staged counts the   *)
(* updates staged, and image.released holds the handles of the source      *)
(* images that SubresourceUpdate::release has released and deleted, one    *)
(* entry per release, in the order of the releases.                        *)

MaxLevels  == 3   \* the largest mLevelCount
MaxStagedLevel == 1 \* staged updates name the levels 0..MaxStagedLevel
MaxLayers  == 2   \* the largest mLayerCount
MaxUpdates == 2   \* staged updates created in one run
MaxExtent  == 5   \* the largest width and height of the base level

ImageLayout ==
    {"Undefined", "PreInitialized", "TransferSrc", "TransferDst",
     "ComputeShaderReadOnly", "ComputeShaderWrite", "FragmentShaderReadOnly",
     "ColorAttachment", "DepthStencilAttachment", "Present"}

BarrierData(layout, dstStageMask, srcStageMask, dstAccessMask, srcAccessMask,
            isReadOnlyAccess) ==
    [layout |-> layout, dstStageMask |-> dstStageMask,
     srcStageMask |-> srcStageMask, dstAccessMask |-> dstAccessMask,
     srcAccessMask |-> srcAccessMask, isReadOnlyAccess |-> isReadOnlyAccess]

kImageMemoryBarrierData ==
    [l \in ImageLayout |->
      CASE l = "Undefined" ->
             BarrierData("UNDEFINED", "BOTTOM_OF_PIPE", "TOP_OF_PIPE",
                         {}, {}, TRUE)
        [] l = "PreInitialized" ->
             BarrierData("PREINITIALIZED", "BOTTOM_OF_PIPE", "TOP_OF_PIPE",
                         {}, {"HOST_WRITE"}, FALSE)
        [] l = "TransferSrc" ->
             BarrierData("TRANSFER_SRC_OPTIMAL", "TRANSFER", "TRANSFER",
                         {"TRANSFER_READ"}, {}, TRUE)
        [] l = "TransferDst" ->
             BarrierData("TRANSFER_DST_OPTIMAL", "TRANSFER", "TRANSFER",
                         {"TRANSFER_WRITE"}, {"TRANSFER_WRITE"}, FALSE)
        [] l = "ComputeShaderReadOnly" ->
             BarrierData("SHADER_READ_ONLY_OPTIMAL", "COMPUTE_SHADER",
                         "COMPUTE_SHADER", {"SHADER_READ"}, {}, TRUE)
        [] l = "ComputeShaderWrite" ->
             BarrierData("GENERAL", "COMPUTE_SHADER", "COMPUTE_SHADER",
                         {"SHADER_READ", "SHADER_WRITE"}, {"SHADER_WRITE"}, FALSE)
        [] l = "FragmentShaderReadOnly" ->
             BarrierData("SHADER_READ_ONLY_OPTIMAL", "FRAGMENT_SHADER",
                         "FRAGMENT_SHADER", {"SHADER_READ"}, {}, TRUE)
        [] l = "ColorAttachment" ->
             BarrierData("COLOR_ATTACHMENT_OPTIMAL", "COLOR_ATTACHMENT_OUTPUT",
                         "COLOR_ATTACHMENT_OUTPUT",
                         {"COLOR_ATTACHMENT_READ", "COLOR_ATTACHMENT_WRITE"},
                         {"COLOR_ATTACHMENT_WRITE"}, FALSE)
        [] l = "DepthStencilAttachment" ->
             BarrierData("DEPTH_STENCIL_ATTACHMENT_OPTIMAL", "LATE_FRAGMENT_TESTS",
                         "LATE_FRAGMENT_TESTS",
                         {"DEPTH_STENCIL_ATTACHMENT_READ",
                          "DEPTH_STENCIL_ATTACHMENT_WRITE"},
                         {"DEPTH_STENCIL_ATTACHMENT_WRITE"}, FALSE)
        [] l = "Present" ->
             BarrierData("PRESENT_SRC_KHR", "BOTTOM_OF_PIPE", "TOP_OF_PIPE",
                         {}, {}, TRUE)]

\* ImageHelper::getCurrentLayout
getCurrentLayout(img) == kImageMemoryBarrierData[img.mCurrentLayout].layout

\* An isLayoutChangeNecessary that only compares the layouts.
LayoutDiffers(img, newLayout) == img.mCurrentLayout # newLayout

\* ImageHelper::isLayoutChangeNecessary
isLayoutChangeNecessary(img, newLayout) ==
    LET layoutData == kImageMemoryBarrierData[img.mCurrentLayout]
        sameLayoutReadAfterRead ==
            img.mCurrentLayout = newLayout /\ layoutData.isReadOnlyAccess
    IN  ~sameLayoutReadAfterRead

\* A changeLayout that takes the entry masks of the old layout and the exit
\* masks of the new one.
LayoutBarrierSwapped(img, newLayout) ==
    LET transitionFrom == kImageMemoryBarrierData[img.mCurrentLayout]
        transitionTo   == kImageMemoryBarrierData[newLayout]
    IN  [cmd            |-> "pipelineBarrier",
         image          |-> img.handle,
         srcStageMask   |-> transitionFrom.dstStageMask,
         dstStageMask   |-> transitionTo.srcStageMask,
         srcAccessMask  |-> transitionFrom.dstAccessMask,
         dstAccessMask  |-> transitionTo.srcAccessMask,
         oldLayout      |-> transitionFrom.layout,
         newLayout      |-> transitionTo.layout,
         baseMipLevel   |-> 0,
         levelCount     |-> img.mLevelCount,
         baseArrayLayer |-> 0,
         layerCount     |-> img.mLayerCount]

\* The pipelineBarrier command of ImageHelper::changeLayout (lines 1518-1539).
LayoutBarrier(img, newLayout) ==
    LET transitionFrom == kImageMemoryBarrierData[img.mCurrentLayout]
        transitionTo   == kImageMemoryBarrierData[newLayout]
    IN  [cmd            |-> "pipelineBarrier",
         image          |-> img.handle,
         srcStageMask   |-> transitionFrom.srcStageMask,
         dstStageMask   |-> transitionTo.dstStageMask,
         srcAccessMask  |-> transitionFrom.srcAccessMask,
         dstAccessMask  |-> transitionTo.dstAccessMask,
         oldLayout      |-> transitionFrom.layout,
         newLayout      |-> transitionTo.layout,
         baseMipLevel   |-> 0,
         levelCount     |-> img.mLevelCount,
         baseArrayLayer |-> 0,
         layerCount     |-> img.mLayerCount]

\* What a recorded barrier does to the layouts of the mip levels.
ApplyBarrier(levelLayout, barrier) ==
    [level \in DOMAIN levelLayout |->
        IF /\ level >= barrier.baseMipLevel
           /\ level < barrier.baseMipLevel + barrier.levelCount
        THEN barrier.newLayout
        ELSE levelLayout[level]]

\* The commands ImageHelper::changeLayout records.
changeLayoutCommands(img, newLayout) ==
    IF isLayoutChangeNecessary(img, newLayout)
    THEN <<LayoutBarrier(img, newLayout)>>
    ELSE <<>>

\* The image ImageHelper::changeLayout leaves.
changeLayout(img, newLayout) ==
    IF isLayoutChangeNecessary(img, newLayout)
    THEN [img EXCEPT !.mCurrentLayout = newLayout,
                     !.levelLayout = ApplyBarrier(@, LayoutBarrier(img, newLayout))]
    ELSE img

\* An initialised image (ImageHelper::init): the layout is Undefined and
\* no update is staged.  handle 0 is this image; the source images of
\* staged updates have the handles 1, 2, ...
NewImage(width, height, mipLevels, layerCount) ==
    [handle              |-> 0,
     mExtents            |-> [width |-> width, height |-> height],
     mCurrentLayout      |-> "Undefined",
     mLayerCount         |-> layerCount,
     mLevelCount         |-> mipLevels,
     mSubresourceUpdates |-> <<>>,
     levelLayout         |-> [level \in 0..(mipLevels - 1) |-> "UNDEFINED"],
     staged              |-> 0,
     released            |-> <<>>]

NoCall == [op |-> "none"]

ImageInit ==
    /\ \E layerCount \in 1..MaxLayers :
         image = NewImage(1, 1, 1, layerCount)
    /\ commandBuffer = <<>>
    /\ imLog = NoCall

ImageIdle ==
    /\ image = NewImage(1, 1, 1, 1)
    /\ commandBuffer = <<>>
    /\ imLog = NoCall

\* ImageHelper::changeLayout(aspectMask, newLayout, commandBuffer)
ChangeLayout(newLayout) ==
    /\ image' = changeLayout(image, newLayout)
    /\ commandBuffer' = changeLayoutCommands(image, newLayout)
    /\ imLog' = [op |-> "changeLayout", newLayout |-> newLayout]
    /\ UNCHANGED exceptImage

\* A buffer-sourced update holds no source image.
NoSourceImage ==
    [handle |-> 0, mCurrentLayout |-> "Undefined", mLevelCount |-> 0,
     mLayerCount |-> 0, levelLayout |-> <<>>]

\* The SubresourceUpdate of the staging-buffer variants (lines 1789-1802).
BufferUpdate(id, mipLevel, baseArrayLayer) ==
    [updateSource |-> "Buffer", id |-> id, mipLevel |-> mipLevel,
     baseArrayLayer |-> baseArrayLayer, layerCount |-> 1, image |-> NoSourceImage]

\* The SubresourceUpdate of stageSubresourceUpdateFromImage; it owns the
\* source ImageHelper.
ImageUpdate(id, mipLevel, baseArrayLayer, srcLayout) ==
    [updateSource |-> "Image", id |-> id, mipLevel |-> mipLevel,
     baseArrayLayer |-> baseArrayLayer, layerCount |-> 1,
     image |-> [handle |-> id, mCurrentLayout |-> srcLayout,
                mLevelCount |-> 1, mLayerCount |-> 1,
                levelLayout |-> [level \in {0} |->
                                    kImageMemoryBarrierData[srcLayout].layout]]]

\* The layout a source image is in when it is staged: "the staging images
\* are only made through color attachment writes" (line 2009).
SourceLayouts == {"ColorAttachment"}

\* What an image with staged updates is used for between flushes.
UseLayouts == {"FragmentShaderReadOnly", "ColorAttachment"}

UpdateLevels == 0..MaxStagedLevel

\* The <<baseLevel, levelCount>> given to flushStagedUpdates.
FlushRanges ==
    {range \in UpdateLevels \X (0..(MaxStagedLevel + 1)) :
        range[1] + range[2] <= MaxStagedLevel + 1}

\* ImageHelper::stageSubresourceUpdate: allocated: the staging memory is
\* allocated; if not, the call returns the error and stages nothing.
StageSubresourceUpdate(mipLevel, baseArrayLayer, allocated) ==
    /\ image.staged < MaxUpdates
    /\ image' = IF allocated
                THEN [image EXCEPT
                         !.mSubresourceUpdates =
                             Append(@, BufferUpdate(image.staged + 1, mipLevel,
                                                    baseArrayLayer)),
                         !.staged = @ + 1]
                ELSE image
    /\ commandBuffer' = <<>>
    /\ imLog' = [op |-> "stageSubresourceUpdate",
                 result |-> IF allocated THEN "Continue" ELSE "Stop"]
    /\ UNCHANGED exceptImage

\* ImageHelper::stageSubresourceUpdateFromImage
StageSubresourceUpdateFromImage(mipLevel, baseArrayLayer, srcLayout) ==
    /\ image.staged < MaxUpdates
    /\ image' = [image EXCEPT
                    !.mSubresourceUpdates =
                        Append(@, ImageUpdate(image.staged + 1, mipLevel,
                                              baseArrayLayer, srcLayout)),
                    !.staged = @ + 1]
    /\ commandBuffer' = <<>>
    /\ imLog' = [op |-> "stageSubresourceUpdateFromImage"]
    /\ UNCHANGED exceptImage

\* gl::InternalFormat::computeRowPitch, computeDepthPitch and
\* computeSkipBytes with the default row length, image height and alignment:
\* products in checked GLuint arithmetic, valid when they fit.
CheckedGLuint(value) == [valid |-> value < UInt32Mod, value |-> value % UInt32Mod]

computeRowPitch(inputPixelBytes, width) == CheckedGLuint(inputPixelBytes * width)

computeDepthPitch(height, inputRowPitch) == CheckedGLuint(inputRowPitch * height)

computeSkipBytes(inputRowPitch, skipRows) == CheckedGLuint(skipRows * inputRowPitch)

\* What the extents, pixel sizes and skipped rows of an upload may be.
ExtentSizes == {1, 4}
PixelSizes  == {1, 4}
SkipRows    == {0, 4}

\* Lines 1771-1778: the size of the staging allocation.  pixelBytes is a
\* GLuint and the extents are ints, so the first product is taken in
\* unsigned 32-bit arithmetic and the two others in size_t arithmetic.
AllocationSize(pixelBytes, extents) ==
    LET outputRowPitch   == (pixelBytes * extents.width) % UInt32Mod
        outputDepthPitch == (outputRowPitch * extents.height) % SizeTMod
    IN  (outputDepthPitch * extents.depth) % SizeTMod

\* ImageHelper::init (line 1254): the staging buffer is a DynamicBuffer of
\* alignment 4.
StagingBufferInit ==
    /\ dynamicBuffer = [mHostVisible                 |-> TRUE,
                        mMinSize                     |-> MinSizeInit,
                        mBuffer                      |-> 0,
                        mNextAllocationOffset        |-> 0,
                        mLastFlushOrInvalidateOffset |-> 0,
                        mSize                        |-> 0,
                        mAlignment                   |-> 4,
                        mRetainedBuffers             |-> <<>>,
                        created                      |-> 0,
                        aborted                      |-> FALSE]
    /\ dbLog = [result |-> "none", newBuffer |-> FALSE, allocations |-> <<>>]

\* ImageHelper::stageSubresourceUpdate with its size computations, on the
\* staging buffer held in dynamicBuffer: the three checked computations of
\* the input, the allocation of outcome `outcome` and the new update.
StageSubresourceUpdateOfSize(baseArrayLayer, extents, inputPixelBytes, pixelBytes, skipRows, outcome) ==
    LET inputRowPitch   == computeRowPitch(inputPixelBytes, extents.width)
        inputDepthPitch == computeDepthPitch(extents.height, inputRowPitch.value)
        inputSkipBytes  == computeSkipBytes(inputRowPitch.value, skipRows)
        checked         == /\ inputRowPitch.valid
                           /\ inputDepthPitch.valid
                           /\ inputSkipBytes.valid
        allocationSize  == AllocationSize(pixelBytes, extents)
        call            == allocate(dynamicBuffer, allocationSize, outcome)
        staged          == checked /\ outcome = "ok"
    IN  /\ image.staged < MaxUpdates
        /\ ~dynamicBuffer.aborted
        /\ IF checked
           THEN /\ Len(dbLog.allocations) < MaxAllocations
                /\ call.needNew => dynamicBuffer.created < MaxBuffers
                /\ call.enabled
                /\ dynamicBuffer' = call.db
                /\ dbLog' = IF outcome = "ok"
                            THEN LogAllocation(call.ready, allocationSize,
                                               call.needNew)
                            ELSE LogFailure(call.newBuffer)
           ELSE /\ outcome = "ok"
                /\ UNCHANGED dynamicBufferVars
        /\ image' = IF staged
                    THEN [image EXCEPT
                             !.mSubresourceUpdates =
                                 Append(@, BufferUpdate(image.staged + 1, 0,
                                                        baseArrayLayer)),
                             !.staged = @ + 1]
                    ELSE image
        /\ commandBuffer' = <<>>
        /\ imLog' = [op |-> "stageSubresourceUpdate",
                     result |-> IF staged THEN "Continue" ELSE "Stop",
                     extents |-> extents,
                     pixelBytes |-> pixelBytes,
                     checked |-> checked,
                     allocated |-> checked /\ outcome = "ok",
                     allocationSize |-> allocationSize]
        /\ UNCHANGED <<renderer, entryPoolVars, descriptorPoolVars,
                       lineLoopVars, bufferVars, shaderVars>>

\* A test that looks at the level alone.
isUpdateToLevel(update, layerIndex, levelIndex) ==
    update.mipLevel = levelIndex

\* SubresourceUpdate::isUpdateToLayerLevel
isUpdateToLayerLevel(update, layerIndex, levelIndex) ==
    update.baseArrayLayer = layerIndex /\ update.mipLevel = levelIndex

\* A release that leaves the source image of the update alone.
ReleasedByNone(updates) == <<>>

\* The source images SubresourceUpdate::release releases and deletes when
\* it is called on each of these updates in turn.
ReleasedBy(updates) ==
    LET IsImage(update) == update.updateSource = "Image"
        images == SelectSeq(updates, IsImage)
    IN  [i \in 1..Len(images) |-> images[i].id]

\* ImageHelper::removeStagedUpdates(index)
RemoveStagedUpdates(levelIndex, layerIndex) ==
    LET Kept(update)    == ~isUpdateToLayerLevel(update, layerIndex, levelIndex)
        Removed(update) == isUpdateToLayerLevel(update, layerIndex, levelIndex)
    IN  /\ image' = [image EXCEPT
                        !.mSubresourceUpdates = SelectSeq(@, Kept),
                        !.released = @ \o
                            ReleasedBy(SelectSeq(image.mSubresourceUpdates, Removed))]
        /\ commandBuffer' = <<>>
        /\ imLog' = [op |-> "removeStagedUpdates", levelIndex |-> levelIndex,
                     layerIndex |-> layerIndex]
        /\ UNCHANGED exceptImage

\* ImageHelper::releaseStagingBuffer: the updates that never made it to
\* the image are released and the queue is cleared.
ReleaseStagingBuffer ==
    /\ image' = [image EXCEPT
                    !.mSubresourceUpdates = <<>>,
                    !.released = @ \o ReleasedBy(image.mSubresourceUpdates)]
    /\ commandBuffer' = <<>>
    /\ imLog' = [op |-> "releaseStagingBuffer"]
    /\ UNCHANGED exceptImage

\* A range test that takes baseLevel + levelCount for a level of the range.
IsOutsideLevelsInclusive(update, baseLevel, levelCount) ==
    update.mipLevel < baseLevel \/ update.mipLevel > baseLevel + levelCount

\* The test of line 1990: the update is kept for a later flush.
IsOutsideLevels(update, baseLevel, levelCount) ==
    update.mipLevel < baseLevel \/ update.mipLevel >= baseLevel + levelCount

\* Lines 2002-2020: the copy of one update into img, which is in
\* TransferDst; an image-sourced update first moves its source to
\* TransferSrc.
CopyCommands(img, update) ==
    IF update.updateSource = "Buffer"
    THEN <<[cmd |-> "copyBufferToImage", update |-> update.id,
            dstImage |-> img.handle, dstImageLayout |-> getCurrentLayout(img),
            mipLevel |-> update.mipLevel]>>
    ELSE changeLayoutCommands(update.image, "TransferSrc")
         \o <<[cmd |-> "copyImage", update |-> update.id,
               srcImage |-> update.image.handle,
               srcImageLayout |->
                   getCurrentLayout(changeLayout(update.image, "TransferSrc")),
               dstImage |-> img.handle, dstImageLayout |-> getCurrentLayout(img),
               mipLevel |-> update.mipLevel]>>

\* A flush that moves the destination to TransferDst on the first
\* applicable update only.
FlushDestinationBarrierOnce(img) ==
    IF img.mCurrentLayout = "TransferDst"
    THEN <<>>
    ELSE changeLayoutCommands(img, "TransferDst")

\* Line 2000: what the changeLayout of the destination records.
FlushDestinationBarrier(img) == changeLayoutCommands(img, "TransferDst")

\* A loop that records the commands of each update ahead of those of the
\* updates before it.
RECURSIVE FlushLoopNewestFirst(_, _, _, _, _)
FlushLoopNewestFirst(acc, updates, i, baseLevel, levelCount) ==
    IF i > Len(updates)
    THEN acc
    ELSE IF IsOutsideLevels(updates[i], baseLevel, levelCount)
    THEN FlushLoopNewestFirst(
             [acc EXCEPT !.updatesToKeep = Append(@, updates[i])],
             updates, i + 1, baseLevel, levelCount)
    ELSE LET dst == changeLayout(acc.image, "TransferDst")
         IN  FlushLoopNewestFirst(
                 [image         |-> [dst EXCEPT !.released =
                                        @ \o ReleasedBy(<<updates[i]>>)],
                  commands      |-> FlushDestinationBarrier(acc.image)
                                    \o CopyCommands(dst, updates[i])
                                    \o acc.commands,
                  updatesToKeep |-> acc.updatesToKeep],
                 updates, i + 1, baseLevel, levelCount)

\* One round of the loop of flushStagedUpdates (lines 1978-2023) on the
\* i-th update and the rounds after it.  acc: the image so far, the
\* commands recorded so far, updatesToKeep.
RECURSIVE FlushLoop(_, _, _, _, _)
FlushLoop(acc, updates, i, baseLevel, levelCount) ==
    IF i > Len(updates)
    THEN acc
    ELSE IF IsOutsideLevels(updates[i], baseLevel, levelCount)
    THEN FlushLoop([acc EXCEPT !.updatesToKeep = Append(@, updates[i])],
                   updates, i + 1, baseLevel, levelCount)
    ELSE LET dst == changeLayout(acc.image, "TransferDst")
         IN  FlushLoop(
                 [image         |-> [dst EXCEPT !.released =
                                        @ \o ReleasedBy(<<updates[i]>>)],
                  commands      |-> acc.commands
                                    \o FlushDestinationBarrier(acc.image)
                                    \o CopyCommands(dst, updates[i]),
                  updatesToKeep |-> acc.updatesToKeep],
                 updates, i + 1, baseLevel, levelCount)

\* ImageHelper::flushStagedUpdates(baseLevel, levelCount, commandBuffer).
\* flushed: the flush of the staging buffer succeeds (line 1974).
FlushStagedUpdates(baseLevel, levelCount, flushed) ==
    LET done == FlushLoop([image |-> image, commands |-> <<>>,
                           updatesToKeep |-> <<>>],
                          image.mSubresourceUpdates, 1, baseLevel, levelCount)
    IN  /\ image.mSubresourceUpdates = <<>> => flushed
        /\ IF image.mSubresourceUpdates = <<>> \/ ~flushed
           THEN /\ image' = image
                /\ commandBuffer' = <<>>
           ELSE /\ image' = [done.image EXCEPT
                                !.mSubresourceUpdates = done.updatesToKeep]
                /\ commandBuffer' = done.commands
        /\ imLog' = [op |-> "flushStagedUpdates", baseLevel |-> baseLevel,
                     levelCount |-> levelCount,
                     result |-> IF flushed THEN "Continue" ELSE "Stop"]
        /\ UNCHANGED exceptImage

\* The barrier generateMipmapsWithBlit builds by hand for one mip level
\* (lines 1655-1674 and 1704-1706).
MipBarrier(img, baseMipLevel, oldLayout) ==
    [cmd            |-> "pipelineBarrier",
     image          |-> img.handle,
     srcStageMask   |-> "TRANSFER",
     dstStageMask   |-> "TRANSFER",
     srcAccessMask  |-> {"TRANSFER_WRITE"},
     dstAccessMask  |-> {"TRANSFER_READ"},
     oldLayout      |-> oldLayout,
     newLayout      |-> "TRANSFER_SRC_OPTIMAL",
     baseMipLevel   |-> baseMipLevel,
     levelCount     |-> 1,
     baseArrayLayer |-> 0,
     layerCount     |-> img.mLayerCount]

\* A halving without the lower limit of 1.
NextMipSizeUnclamped(mipSize) == mipSize \div 2

\* Lines 1667-1668: the size of the next mip level.
NextMipSize(mipSize) == Max(1, mipSize \div 2)

\* Lines 1681-1699: the blit from mipLevel - 1 into mipLevel.
MipBlit(mipLevel, mipWidth, mipHeight) ==
    [cmd            |-> "blitImage",
     srcMipLevel    |-> mipLevel - 1,
     srcExtent      |-> [width |-> mipWidth, height |-> mipHeight],
     srcImageLayout |-> "TRANSFER_SRC_OPTIMAL",
     dstMipLevel    |-> mipLevel,
     dstExtent      |-> [width  |-> NextMipSize(mipWidth),
                         height |-> NextMipSize(mipHeight)],
     dstImageLayout |-> "TRANSFER_DST_OPTIMAL"]

\* A loop that records each blit ahead of the barrier of its source level.
RECURSIVE MipLoopBlitFirst(_, _, _, _, _)
MipLoopBlitFirst(img, mipLevel, maxLevel, mipWidth, mipHeight) ==
    IF mipLevel > maxLevel
    THEN <<>>
    ELSE <<MipBlit(mipLevel, mipWidth, mipHeight),
           MipBarrier(img, mipLevel - 1, getCurrentLayout(img))>>
         \o MipLoopBlitFirst(img, mipLevel + 1, maxLevel,
                             NextMipSize(mipWidth), NextMipSize(mipHeight))

\* The loop of lines 1665-1700 from mipLevel on: the commands it records.
RECURSIVE MipLoop(_, _, _, _, _)
MipLoop(img, mipLevel, maxLevel, mipWidth, mipHeight) ==
    IF mipLevel > maxLevel
    THEN <<>>
    ELSE <<MipBarrier(img, mipLevel - 1, getCurrentLayout(img)),
           MipBlit(mipLevel, mipWidth, mipHeight)>>
         \o MipLoop(img, mipLevel + 1, maxLevel,
                    NextMipSize(mipWidth), NextMipSize(mipHeight))

RECURSIVE ApplyBarriers(_, _, _)
ApplyBarriers(levelLayout, commands, i) ==
    IF i > Len(commands)
    THEN levelLayout
    ELSE ApplyBarriers(IF commands[i].cmd = "pipelineBarrier"
                       THEN ApplyBarrier(levelLayout, commands[i])
                       ELSE levelLayout,
                       commands, i + 1)

\* ImageHelper::generateMipmapsWithBlit(maxLevel).  recording:
\* recordCommands hands out a command buffer.
GenerateMipmapsWithBlit(maxLevel, recording) ==
    LET dst    == changeLayout(image, "TransferDst")
        manual == MipLoop(dst, 1, maxLevel, image.mExtents.width,
                          image.mExtents.height)
                  \o <<MipBarrier(dst, maxLevel, "TRANSFER_DST_OPTIMAL")>>
    IN  /\ maxLevel < image.mLevelCount
        /\ IF recording
           THEN /\ image' = [dst EXCEPT
                                !.mCurrentLayout = "TransferSrc",
                                !.levelLayout = ApplyBarriers(@, manual, 1)]
                /\ commandBuffer' =
                       changeLayoutCommands(image, "TransferDst") \o manual
           ELSE /\ image' = image
                /\ commandBuffer' = <<>>
        /\ imLog' = [op |-> "generateMipmapsWithBlit", maxLevel |-> maxLevel,
                     result |-> IF recording THEN "Continue" ELSE "Stop"]
        /\ UNCHANGED exceptImage

\* ImageHelper::getSize of mip level mipLevel
getSize(img, mipLevel) ==
    [width  |-> Max(1, img.mExtents.width \div Pow2(mipLevel)),
     height |-> Max(1, img.mExtents.height \div Pow2(mipLevel))]

\* A mipmapped image: the level count is one Vulkan accepts for the extent.
MipmapInit ==
    /\ \E width \in 1..MaxExtent, height \in 1..MaxExtent,
          mipLevels \in 1..MaxLevels, layerCount \in 1..MaxLayers :
         /\ Pow2(mipLevels - 1) <= Max(width, height)
         /\ image = NewImage(width, height, mipLevels, layerCount)
    /\ commandBuffer = <<>>
    /\ imLog = NoCall

\* ImageHelper::clearColorLayer(color, baseMipLevel, levelCount,
\* baseArrayLayer, layerCount, commandBuffer); clearColor is this call with
\* the layers 0..mLayerCount.
ClearColorLayer(baseMipLevel, levelCount, baseArrayLayer, layerCount) ==
    LET dst == changeLayout(image, "TransferDst")
    IN  /\ image' = dst
        /\ commandBuffer' =
               changeLayoutCommands(image, "TransferDst")
               \o <<[cmd |-> "clearColorImage", image |-> dst.handle,
                     imageLayout |-> getCurrentLayout(dst),
                     baseMipLevel |-> baseMipLevel, levelCount |-> levelCount,
                     baseArrayLayer |-> baseArrayLayer,
                     layerCount |-> layerCount]>>
        /\ imLog' = [op |-> "clearColorLayer"]
        /\ UNCHANGED exceptImage

\* ImageHelper::clearDepthStencil
ClearDepthStencil ==
    LET dst == changeLayout(image, "TransferDst")
    IN  /\ image' = dst
        /\ commandBuffer' =
               changeLayoutCommands(image, "TransferDst")
               \o <<[cmd |-> "clearDepthStencilImage", image |-> dst.handle,
                     imageLayout |-> getCurrentLayout(dst),
                     baseMipLevel |-> 0, levelCount |-> 1,
                     baseArrayLayer |-> 0, layerCount |-> 1]>>
        /\ imLog' = [op |-> "clearDepthStencil"]
        /\ UNCHANGED exceptImage

\* A second image wrapper, the source of ImageHelper::Copy.
OtherImage(layout) ==
    [handle |-> MaxUpdates + 1, mCurrentLayout |-> layout, mLevelCount |-> 1,
     mLayerCount |-> 1,
     levelLayout |-> [level \in {0} |-> kImageMemoryBarrierData[layout].layout]]

\* The layouts the other image is in when it is given to Copy.
CopySourceLayouts == {"ColorAttachment", "TransferSrc", "TransferDst"}

\* ImageHelper::Copy(srcImage, dstImage, ...), dstImage being the image.
\* sameImage: srcImage and dstImage are the same wrapper; if not, srcImage
\* is another image in srcLayout.  imLog.srcImage is srcImage after the call.
Copy(sameImage, srcLayout) ==
    LET srcBefore == IF sameImage THEN image ELSE OtherImage(srcLayout)
        src       == changeLayout(srcBefore, "TransferSrc")
        dstBefore == IF sameImage THEN src ELSE image
        dst       == changeLayout(dstBefore, "TransferDst")
        srcAfter  == IF sameImage THEN dst ELSE src
    IN  /\ sameImage => srcLayout = image.mCurrentLayout
        /\ image' = dst
        /\ commandBuffer' =
               changeLayoutCommands(srcBefore, "TransferSrc")
               \o changeLayoutCommands(dstBefore, "TransferDst")
               \o <<[cmd |-> "copyImage", update |-> 0,
                     srcImage |-> srcAfter.handle,
                     srcImageLayout |-> getCurrentLayout(srcAfter),
                     dstImage |-> dst.handle,
                     dstImageLayout |-> getCurrentLayout(dst),
                     mipLevel |-> 0]>>
        /\ imLog' = [op |-> "Copy",
                     srcImage |-> [handle |-> srcAfter.handle,
                                   mCurrentLayout |-> srcAfter.mCurrentLayout]]
        /\ UNCHANGED exceptImage

----------------------------------------------------------------------------
(* LineLoopHelper.  Its mDynamicIndexBuffer is the modelled DynamicBuffer, *)
(* constructed with the line loop minimum size and the alignment           *)
(* sizeof(uint32_t).  lineLoop holds the last call: for                    *)
(* getIndexBufferForDrawArrays the indices found in the range handed out,  *)
(* for Draw the command recorded.                                          *)

MaxVertexCount == 4   \* the largest clampedVertexCount

\* clampedVertexCount: no vertex, one, and the most.
VertexCounts == {0, 1, MaxVertexCount}

\* sizeof(uint32_t), the size of one index and the alignment of the buffer
IndexSize == 4

\* firstVertex is a GLint: the greatest one, and some below it.
FirstVertices == {-1, 0, 3, (UInt32Mod \div 2) - 1}

\* What a slot of the mapped range holds when nothing was written to it.
StaleIndices == {0, UInt32Mod - 1}

NoLineLoopCall ==
    [op |-> "none", result |-> "none", clampedVertexCount |-> 0,
     firstVertex |-> 0, indices |-> <<>>, commands |-> <<>>]

LineLoopIdle == lineLoop = NoLineLoopCall

\* LineLoopHelper::LineLoopHelper
LineLoopInit ==
    /\ dynamicBuffer = [mHostVisible                 |-> TRUE,
                        mMinSize                     |-> MinSizeInit,
                        mBuffer                      |-> 0,
                        mNextAllocationOffset        |-> 0,
                        mLastFlushOrInvalidateOffset |-> 0,
                        mSize                        |-> 0,
                        mAlignment                   |-> IndexSize,
                        mRetainedBuffers             |-> <<>>,
                        created                      |-> 0,
                        aborted                      |-> FALSE]
    /\ dbLog = [result |-> "none", newBuffer |-> FALSE, allocations |-> <<>>]
    /\ LineLoopIdle

\* static_cast<uint32_t>(firstVertex)
UnsignedFirstVertex(firstVertex) == firstVertex % UInt32Mod

\* A loop that also writes the index vertexCount itself.
RECURSIVE SequentialIndicesInclusive(_, _)
SequentialIndicesInclusive(vertexIndex, vertexCount) ==
    IF vertexIndex <= vertexCount
    THEN <<vertexIndex>> \o SequentialIndicesInclusive(vertexIndex + 1, vertexCount)
    ELSE <<>>

\* The loop of lines 929-932: vertexIndex is written while it is below
\* vertexCount.
RECURSIVE SequentialIndices(_, _)
SequentialIndices(vertexIndex, vertexCount) ==
    IF vertexIndex < vertexCount
    THEN <<vertexIndex>> \o SequentialIndices(vertexIndex + 1, vertexCount)
    ELSE <<>>

\* Lines 926-933: what getIndexBufferForDrawArrays writes through indices,
\* the sum being a uint32_t.
LineLoopIndices(clampedVertexCount, firstVertex) ==
    LET unsignedFirstVertex == UnsignedFirstVertex(firstVertex)
        vertexCount == (clampedVertexCount + unsignedFirstVertex) % UInt32Mod
    IN  SequentialIndices(unsignedFirstVertex, vertexCount)
            \o <<unsignedFirstVertex>>

\* LineLoopHelper::getIndexBufferForDrawArrays.  outcome: as for allocate;
\* flushed: the final flush succeeds.  The slots of the range that are not
\* written hold stale indices.
GetIndexBufferForDrawArrays(clampedVertexCount, firstVertex, outcome, flushed) ==
    LET allocateBytes == (IndexSize * (clampedVertexCount + 1)) % SizeTMod
        released      == [dynamicBuffer EXCEPT !.mRetainedBuffers = <<>>]
        call          == allocate(released, allocateBytes, outcome)
        written       == LineLoopIndices(clampedVertexCount, firstVertex)
        unwritten     == Max(0, clampedVertexCount + 1 - Len(written))
        returned(result, indices) ==
            [op |-> "getIndexBufferForDrawArrays", result |-> result,
             clampedVertexCount |-> clampedVertexCount,
             firstVertex |-> firstVertex,
             indices |-> indices, commands |-> <<>>]
    IN  /\ ~dynamicBuffer.aborted
        /\ call.needNew => dynamicBuffer.created < MaxBuffers
        /\ call.enabled
        /\ renderer' = ReleaseToSink(Range(dynamicBuffer.mRetainedBuffers))
        /\ IF outcome = "ok"
           THEN /\ ~flushed => NeedsFlush(call.db)
                /\ dynamicBuffer' = IF flushed THEN Flushed(call.db) ELSE call.db
                /\ \E stale \in [1..unwritten -> StaleIndices] :
                     lineLoop' = returned(IF flushed THEN "Continue" ELSE "Stop",
                                          written \o stale)
           ELSE /\ flushed
                /\ dynamicBuffer' = call.db
                /\ lineLoop' = returned("Stop", <<>>)
        /\ UNCHANGED exceptLineLoop

\* LineLoopHelper::Draw: count + 1 is a uint32_t.
Draw(count) ==
    /\ lineLoop' = [NoLineLoopCall EXCEPT
                       !.op = "Draw",
                       !.clampedVertexCount = count,
                       !.commands = <<[cmd           |-> "drawIndexed",
                                       indexCount    |-> (count + 1) % UInt32Mod,
                                       instanceCount |-> 1,
                                       firstIndex    |-> 0,
                                       vertexOffset  |-> 0,
                                       firstInstance |-> 0]>>]
    /\ UNCHANGED <<renderer, dynamicBuffer, exceptLineLoop>>

MaxIndexCount == 2   \* the largest indexCount

DrawElementsTypes == {"UnsignedByte", "UnsignedShort", "UnsignedInt"}

\* The size in bytes of a source index, and unitSize, the size of an index
\* of kIndexTypeMap[glIndexType]: uint16_t for bytes and shorts.
sourceUnitSize(glIndexType) ==
    CASE glIndexType = "UnsignedByte"  -> 1
      [] glIndexType = "UnsignedShort" -> 2
      [] glIndexType = "UnsignedInt"   -> 4

unitSize(glIndexType) == IF glIndexType = "UnsignedInt" THEN 4 ELSE 2

\* indexCount: no index, one, and the most.
IndexCounts == {0, 1, MaxIndexCount}

\* The memory at srcPtr: the indexCount source indices, whose bytes differ
\* from one another, and the bytes that happen to lie beyond them, which
\* only a call without a source index reads.
SourceMemories(glIndexType, indexCount) ==
    {[k \in 1..(indexCount * sourceUnitSize(glIndexType)) |->
         (250 + k) % 256] \o beyond :
     beyond \in IF indexCount = 0
                THEN {<<0, 0, 0, 0>>, <<255, 255, 255, 255>>}
                ELSE {<<0, 0, 0, 0>>}}

\* Lines 1010-1027: the indices streamIndices writes, each as its bytes,
\* the low one first.  A byte index is assigned to a uint16_t; the others
\* are copied by two memcpy calls.
streamedIndices(glIndexType, indexCount, srcPtr) ==
    LET unit == unitSize(glIndexType)
        copied == SubSeq(srcPtr, 1, unit * indexCount) \o SubSeq(srcPtr, 1, unit)
    IN  IF glIndexType = "UnsignedByte"
        THEN [i \in 1..(indexCount + 1) |->
                 LET value == IF i <= indexCount THEN srcPtr[i] ELSE srcPtr[1]
                 IN  <<value % 256, (value \div 256) % 256>>]
        ELSE [i \in 1..(indexCount + 1) |->
                 SubSeq(copied, unit * (i - 1) + 1, unit * i)]

\* LineLoopHelper::streamIndices on the dynamic buffer db.  outcome: as for
\* allocate; flushed: the final flush succeeds.
streamIndices(db, glIndexType, indexCount, srcPtr, outcome, flushed) ==
    LET allocateBytes == (unitSize(glIndexType) * (indexCount + 1)) % SizeTMod
        call          == allocate(db, allocateBytes, outcome)
        done          == outcome = "ok" /\ flushed
    IN  [enabled |-> /\ call.needNew => db.created < MaxBuffers
                     /\ call.enabled
                     /\ IF outcome = "ok"
                        THEN ~flushed => NeedsFlush(call.db)
                        ELSE flushed,
         db      |-> IF done THEN Flushed(call.db) ELSE call.db,
         result  |-> IF done THEN "Continue" ELSE "Stop",
         indices |-> IF outcome = "ok"
                     THEN streamedIndices(glIndexType, indexCount, srcPtr)
                     ELSE <<>>]

\* LineLoopHelper::streamIndices, called with the indices in host memory.
StreamIndices(glIndexType, indexCount, srcPtr, outcome, flushed) ==
    LET call == streamIndices(dynamicBuffer, glIndexType, indexCount, srcPtr,
                              outcome, flushed)
    IN  /\ ~dynamicBuffer.aborted
        /\ call.enabled
        /\ dynamicBuffer' = call.db
        /\ lineLoop' = [op |-> "streamIndices", result |-> call.result,
                        glIndexType |-> glIndexType, indexCount |-> indexCount,
                        source |-> SubSeq(srcPtr, 1,
                                      indexCount * sourceUnitSize(glIndexType)),
                        indices |-> call.indices, calls |-> <<>>,
                        commands |-> <<>>]
        /\ UNCHANGED <<renderer, exceptLineLoop>>

ElementArrayFailures ==
    {"none", "finish", "mapImpl", "flush", "unmapImpl", "copyToBuffer"}

\* RendererVk::finish returning Continue: no submitted batch is left in
\* flight.
finish(r) ==
    [r EXCEPT !.lastCompletedQueueSerial = r.currentQueueSerial - 1]

\* A test that sends no index type through the host.
readsOnHostNever(glIndexType) == FALSE

\* The test of line 952: the indices are widened on the host.
readsOnHost(glIndexType) == glIndexType = "UnsignedByte"

\* LineLoopHelper::getIndexBufferForElementArrayBuffer.  outcome: as for
\* allocate; failing: the call that returns an error, if any, of finish,
\* mapImpl, the final flush, unmapImpl and copyToBuffer;
\* extraCopyBufferRegion: the feature of that name.  lineLoop.calls are the
\* calls made, in order, and lineLoop.inFlight the batches in flight when
\* finish has returned.  The offsets of the copy regions are relative to
\* elementArrayOffset and to the offset allocated.
GetIndexBufferForElementArrayBuffer(glIndexType, indexCount, srcPtr, outcome, failing, extraCopyBufferRegion) ==
    LET unit     == unitSize(glIndexType)
        drained  == finish(renderer)
        stream   == streamIndices(dynamicBuffer, glIndexType, indexCount, srcPtr,
                                  outcome, failing # "flush")
        released == [dynamicBuffer EXCEPT !.mRetainedBuffers = <<>>]
        allocateBytes == (unit * (indexCount + 1) + 1) % SizeTMod
        call     == allocate(released, allocateBytes, outcome)
        copies   == <<[srcOffset |-> 0, dstOffset |-> 0,
                       size |-> indexCount * unit],
                      [srcOffset |-> 0, dstOffset |-> indexCount * unit,
                       size |-> unit]>>
                    \o IF extraCopyBufferRegion
                       THEN <<[srcOffset |-> 0,
                               dstOffset |-> (indexCount + 1) * unit,
                               size |-> 1]>>
                       ELSE <<>>
        returned(result, calls, indices, commands, inFlight) ==
            [op |-> "getIndexBufferForElementArrayBuffer", result |-> result,
             glIndexType |-> glIndexType, indexCount |-> indexCount,
             source |-> SubSeq(srcPtr, 1,
                               indexCount * sourceUnitSize(glIndexType)),
             indices |-> indices, calls |-> calls, commands |-> commands,
             inFlight |-> inFlight]
        InFlight(r) == (r.lastCompletedQueueSerial + 1)
                           ..(r.currentQueueSerial - 1)
    IN  /\ ~dynamicBuffer.aborted
        /\ outcome # "ok" => failing = "none"
        /\ IF readsOnHost(glIndexType)
           THEN /\ ~extraCopyBufferRegion
                /\ failing # "copyToBuffer"
                /\ IF failing = "finish"
                   THEN /\ UNCHANGED <<renderer, dynamicBuffer>>
                        /\ outcome = "ok"
                        /\ lineLoop' = returned("Stop", <<"finish">>, <<>>, <<>>,
                                                InFlight(renderer))
                   ELSE IF failing = "mapImpl"
                   THEN /\ renderer' = drained
                        /\ outcome = "ok"
                        /\ UNCHANGED dynamicBuffer
                        /\ lineLoop' = returned("Stop", <<"finish", "mapImpl">>,
                                                <<>>, <<>>, InFlight(drained))
                   ELSE /\ stream.enabled
                        /\ renderer' = drained
                        /\ dynamicBuffer' = stream.db
                        /\ lineLoop' =
                               returned(
                                   IF failing = "unmapImpl"
                                   THEN "Stop" ELSE stream.result,
                                   <<"finish", "mapImpl", "streamIndices">>
                                   \o IF stream.result = "Continue"
                                      THEN <<"unmapImpl">> ELSE <<>>,
                                   stream.indices, <<>>, InFlight(drained))
           ELSE /\ failing \in {"none", "copyToBuffer", "flush"}
                /\ call.needNew => dynamicBuffer.created < MaxBuffers
                /\ call.enabled
                /\ renderer' = ReleaseToSink(Range(dynamicBuffer.mRetainedBuffers))
                /\ IF outcome # "ok"
                   THEN /\ dynamicBuffer' = call.db
                        /\ lineLoop' = returned("Stop",
                                                <<"releaseRetainedBuffers",
                                                  "allocate">>,
                                                <<>>, <<>>, InFlight(renderer))
                   ELSE IF failing = "copyToBuffer"
                   THEN /\ dynamicBuffer' = call.db
                        /\ lineLoop' = returned("Stop",
                                                <<"releaseRetainedBuffers",
                                                  "allocate", "copyToBuffer">>,
                                                <<>>, <<>>, InFlight(renderer))
                   ELSE /\ failing = "flush" => NeedsFlush(call.db)
                        /\ dynamicBuffer' = IF failing = "flush"
                                            THEN call.db ELSE Flushed(call.db)
                        /\ lineLoop' =
                               returned(IF failing = "flush"
                                        THEN "Stop" ELSE "Continue",
                                        <<"releaseRetainedBuffers", "allocate",
                                          "copyToBuffer", "flush">>,
                                        <<>>,
                                        <<[cmd |-> "copyToBuffer",
                                           copies |-> copies]>>,
                                        InFlight(renderer))
        /\ UNCHANGED exceptLineLoop

----------------------------------------------------------------------------
(* BufferHelper.  An access mask is the set of its VkAccessFlagBits.       *)
(* bufLog holds the last call: its argument, the masks before it, what it  *)
(* recorded, and the access of the write operation before it (prevWrite)   *)
(* and up to it (lastWrite).                                               *)

WriteAccesses == {"TRANSFER_WRITE", "SHADER_WRITE", "HOST_WRITE"}
ReadAccesses  == {"VERTEX_ATTRIBUTE_READ", "TRANSFER_READ"}

\* BufferHelper::BufferHelper
NewBufferHelper == [mCurrentWriteAccess |-> {}, mCurrentReadAccess |-> {}]

NoBufferCall ==
    [op |-> "none", access |-> {}, result |-> "none", before |-> NewBufferHelper,
     commands |-> <<>>, prevWrite |-> {}, lastWrite |-> {}]

BufferIdle ==
    /\ buffer = NewBufferHelper
    /\ bufLog = NoBufferCall

\* A test of the outstanding reads alone.
HasOutstandingRead(buf) == buf.mCurrentReadAccess # {}

\* The test of lines 1099 and 1116: some access is outstanding.
HasOutstandingAccess(buf) ==
    buf.mCurrentReadAccess # {} \/ buf.mCurrentWriteAccess # {}

\* CommandGraphResource::addGlobalMemoryBarrier(srcAccess, dstAccess)
addGlobalMemoryBarrier(srcAccess, dstAccess) ==
    [cmd |-> "globalMemoryBarrier",
     srcAccessMask |-> srcAccess, dstAccessMask |-> dstAccess]

\* Lines 1101 and 1104-1105: what onWrite records and the masks it leaves.
onWrite(buf, writeAccessType) ==
    [commands |-> IF HasOutstandingAccess(buf)
                  THEN <<addGlobalMemoryBarrier(
                             buf.mCurrentReadAccess \cup buf.mCurrentWriteAccess,
                             {writeAccessType})>>
                  ELSE <<>>,
     buffer   |-> [mCurrentWriteAccess |-> {writeAccessType},
                   mCurrentReadAccess  |-> {}]]

\* Lines 1116-1133: what copyFromBuffer records once it has a command
\* buffer, and the masks it leaves.
copyFromBuffer(buf) ==
    [commands |-> (IF HasOutstandingAccess(buf)
                   THEN <<[cmd |-> "pipelineBarrier",
                           srcStageMask  |-> "ALL_COMMANDS",
                           dstStageMask  |-> "TRANSFER",
                           srcAccessMask |-> buf.mCurrentReadAccess
                                                 \cup buf.mCurrentWriteAccess,
                           dstAccessMask |-> {"TRANSFER_WRITE"}]>>
                   ELSE <<>>)
                  \o <<[cmd |-> "copyBuffer"]>>,
     buffer   |-> IF HasOutstandingAccess(buf)
                  THEN [mCurrentWriteAccess |-> {"TRANSFER_WRITE"},
                        mCurrentReadAccess  |-> {}]
                  ELSE buf]

\* BufferHelper::onWrite(writeAccessType)
OnWrite(writeAccessType) ==
    LET call == onWrite(buffer, writeAccessType)
    IN  /\ buffer' = call.buffer
        /\ bufLog' = [op |-> "onWrite", access |-> {writeAccessType},
                      result |-> "Continue", before |-> buffer,
                      commands |-> call.commands,
                      prevWrite |-> bufLog.lastWrite,
                      lastWrite |-> {writeAccessType}]
        /\ UNCHANGED exceptBuffer

\* BufferHelper::copyFromBuffer.  recording: recordCommands hands out a
\* command buffer; if not, the call returns the error.
CopyFromBuffer(recording) ==
    LET call == copyFromBuffer(buffer)
    IN  /\ buffer' = IF recording THEN call.buffer ELSE buffer
        /\ bufLog' = [op |-> "copyFromBuffer", access |-> {"TRANSFER_WRITE"},
                      result |-> IF recording THEN "Continue" ELSE "Stop",
                      before |-> buffer,
                      commands |-> IF recording THEN call.commands ELSE <<>>,
                      prevWrite |-> bufLog.lastWrite,
                      lastWrite |-> IF recording THEN {"TRANSFER_WRITE"}
                                    ELSE bufLog.lastWrite]
        /\ UNCHANGED exceptBuffer

\* BufferHelper::onRead(reader, readAccessType): a read of a kind that is
\* not outstanding yet waits for the outstanding write.
OnRead(readAccessType) ==
    LET drains == /\ buffer.mCurrentWriteAccess # {}
                  /\ readAccessType \notin buffer.mCurrentReadAccess
    IN  /\ buffer' = IF drains
                     THEN [buffer EXCEPT !.mCurrentReadAccess =
                                             @ \cup {readAccessType}]
                     ELSE buffer
        /\ bufLog' = [op |-> "onRead", access |-> {readAccessType},
                      result |-> "Continue", before |-> buffer,
                      commands |-> IF drains
                                   THEN <<addGlobalMemoryBarrier(
                                              buffer.mCurrentWriteAccess,
                                              {readAccessType})>>
                                   ELSE <<>>,
                      prevWrite |-> bufLog.prevWrite,
                      lastWrite |-> bufLog.lastWrite]
        /\ UNCHANGED exceptBuffer

----------------------------------------------------------------------------
(* ShaderGL: one shader object, its native compiles and what               *)
(* postTranslateCompile hands back.                                        *)

MaxCycles == 3   \* compile cycles run on the one shader object

GL_FALSE == 0
CompileStatuses == {GL_FALSE, 1}   \* what GL_COMPILE_STATUS reads back
InfoLogLengths  == 0..2            \* what GL_INFO_LOG_LENGTH reads back
LogTexts        == {"a", "b"}      \* what getShaderInfoLog fills the buffer with
NoLog           == ""              \* the empty std::string

\* ShaderGL::ShaderGL. compiles, cycleStart, workerBound, position, cycles
\* and returned are records of the calls made, not fields of the class.
NewShaderGL ==
    [mFallbackToMainThread |-> TRUE,
     mCompileStatus        |-> GL_FALSE,
     mInfoLog              |-> NoLog,
     position              |-> "idle",
     cycles                |-> 0,
     compiles              |-> <<>>,
     cycleStart            |-> 0,
     workerBound           |-> FALSE,
     returned              |-> [value |-> TRUE, infoLog |-> NoLog]]

ShaderIdle == shader = NewShaderGL

\* The log one native compile produces for the caller: the text the driver
\* holds when the compile failed and the length read back is above 1.
ProducedLog(status, infoLogLength, text) ==
    IF status = GL_FALSE /\ infoLogLength > 1 THEN text ELSE NoLog

\* ShaderGL::compileAndCheckShader: mInfoLog is assigned on one path only.
compileAndCheckShader(sh, status, infoLogLength, text) ==
    [sh EXCEPT
        !.mCompileStatus = status,
        !.mInfoLog = IF status = GL_FALSE /\ infoLogLength > 1 THEN text ELSE @]

\* The record of one native compile and of the thread it ran on.
NativeCompile(sh, thread, status, infoLogLength, text) ==
    [sh EXCEPT
        !.compiles = Append(@, [thread |-> thread,
                                status |-> status,
                                infoLog |-> ProducedLog(status, infoLogLength,
                                                        text)])]

\* ShaderGL::prepareSourceAndReturnOptions, as far as the object goes: the
\* options it returns touch no field.
PrepareSourceAndReturnOptions ==
    /\ shader.position \in {"idle", "done"}
    /\ shader.cycles < MaxCycles
    /\ shader' = [shader EXCEPT !.mFallbackToMainThread = TRUE,
                                !.position = "prepared",
                                !.cycles = @ + 1,
                                !.cycleStart = Len(shader.compiles),
                                !.workerBound = FALSE]
    /\ UNCHANGED exceptShader

\* The variant of compileAsync that leaves the fallback flag as it is.
compileAsyncKeepingFallback(sh, bound, status, infoLogLength, text) ==
    IF bound
    THEN compileAndCheckShader(sh, status, infoLogLength, text)
    ELSE sh

\* ShaderGL::compileAsync on the fields of the class; bound is worker().
compileAsync(sh, bound, status, infoLogLength, text) ==
    IF bound
    THEN [compileAndCheckShader(sh, status, infoLogLength, text)
             EXCEPT !.mFallbackToMainThread = FALSE]
    ELSE sh

\* compileAsync has run on the worker thread and has returned.
CompileAsync(bound, status, infoLogLength, text) ==
    /\ shader.position = "prepared"
    /\ ~bound => (status = GL_FALSE /\ infoLogLength = 0 /\ text = "a")
    /\ shader' =
           LET done == compileAsync(shader, bound, status, infoLogLength, text)
               logged == IF bound
                         THEN NativeCompile(done, "worker", status,
                                            infoLogLength, text)
                         ELSE done
           IN  [logged EXCEPT !.position = "asyncDone", !.workerBound = bound]
    /\ UNCHANGED exceptShader

\* ShaderGL::postTranslateCompile on the fields of the class.
postTranslateCompile(sh, status, infoLogLength, text) ==
    IF sh.mFallbackToMainThread
    THEN compileAndCheckShader(sh, status, infoLogLength, text)
    ELSE sh

\* postTranslateCompile on the main thread: returned.infoLog is *infoLog,
\* written only when the call returns false.
PostTranslateCompile(status, infoLogLength, text) ==
    /\ shader.position \in {"prepared", "asyncDone"}
    /\ ~shader.mFallbackToMainThread =>
           (status = GL_FALSE /\ infoLogLength = 0 /\ text = "a")
    /\ shader' =
           LET done == postTranslateCompile(shader, status, infoLogLength, text)
               logged == IF shader.mFallbackToMainThread
                         THEN NativeCompile(done, "main", status,
                                            infoLogLength, text)
                         ELSE done
           IN  [logged EXCEPT
                   !.position = "done",
                   !.returned = IF done.mCompileStatus = GL_FALSE
                                THEN [value |-> FALSE, infoLog |-> done.mInfoLog]
                                ELSE [value |-> TRUE, infoLog |-> @.infoLog]]
    /\ UNCHANGED exceptShader

----------------------------------------------------------------------------
(* The specifications, one per component.                                  *)

DynamicBufferNext ==
    \/ \E sizeInBytes \in AllocSizes, outcome \in AllocateOutcomes :
           Allocate(sizeInBytes, outcome)
    \/ \E succeeds \in BOOLEAN : FlushOrInvalidate(succeeds)
    \/ ReleaseRetainedBuffers
    \/ Release
    \/ Destroy
    \/ \E minSize \in MinSizes : SetMinimumSizeForTesting(minSize)
    \/ SubmitBatch

InitDynamicBuffer ==
    /\ RendererInit /\ DynamicBufferInit /\ EntryPoolIdle /\ DescriptorPoolIdle
    /\ ImageIdle /\ LineLoopIdle /\ BufferIdle /\ ShaderIdle

SpecDynamicBuffer == InitDynamicBuffer /\ [][DynamicBufferNext]_vars

EntryPoolNext ==
    \/ \E nativeOk \in BOOLEAN : AllocateQuery(nativeOk)
    \/ \E query \in epLog.queries : FreeQuery(query)
    \/ SubmitBatch
    \/ CompleteBatch

InitEntryPool ==
    /\ RendererInit /\ DynamicBufferIdle /\ EntryPoolInit /\ DescriptorPoolIdle
    /\ ImageIdle /\ LineLoopIdle /\ BufferIdle /\ ShaderIdle

SpecEntryPool == InitEntryPool /\ [][EntryPoolNext]_vars

DescriptorPoolNext ==
    \/ \E descriptorSetCount \in 0..MaxSetCount, b \in Bindings,
          poolOk \in BOOLEAN, setsOk \in BOOLEAN, asserts \in BOOLEAN :
           AllocateSets(descriptorSetCount, b, poolOk, setsOk, asserts)
    \/ \E b \in Bindings : ResetBinding(b)
    \/ SubmitBatch
    \/ CompleteBatch

InitDescriptorPool ==
    /\ RendererInit /\ DynamicBufferIdle /\ EntryPoolIdle /\ DescriptorPoolInit
    /\ ImageIdle /\ LineLoopIdle /\ BufferIdle /\ ShaderIdle

SpecDescriptorPool == InitDescriptorPool /\ [][DescriptorPoolNext]_vars

InitDescriptorReuse ==
    /\ RendererInit /\ DynamicBufferIdle /\ EntryPoolIdle /\ DescriptorReuseInit
    /\ ImageIdle /\ LineLoopIdle /\ BufferIdle /\ ShaderIdle

\* The pool in a build without ASSERT, asked for one set at a time.
DescriptorReuseNext ==
    \/ \E b \in Bindings, poolOk \in BOOLEAN, setsOk \in BOOLEAN :
           AllocateSets(1, b, poolOk, setsOk, FALSE)
    \/ \E b \in Bindings : ResetBinding(b)
    \/ SubmitBatch
    \/ CompleteBatch

SpecDescriptorReuse == InitDescriptorReuse /\ [][DescriptorReuseNext]_vars

ImageNext ==
    \/ \E newLayout \in UseLayouts : ChangeLayout(newLayout)
    \/ \E mipLevel \in UpdateLevels, allocated \in BOOLEAN :
           StageSubresourceUpdate(mipLevel, 0, allocated)
    \/ \E mipLevel \in UpdateLevels, srcLayout \in SourceLayouts :
           StageSubresourceUpdateFromImage(mipLevel, 0, srcLayout)
    \/ \E range \in FlushRanges, flushed \in BOOLEAN :
           FlushStagedUpdates(range[1], range[2], flushed)

InitImage ==
    /\ RendererInit /\ DynamicBufferIdle /\ EntryPoolIdle /\ DescriptorPoolIdle
    /\ ImageInit /\ LineLoopIdle /\ BufferIdle /\ ShaderIdle

SpecImage == InitImage /\ [][ImageNext]_vars

MipmapNext ==
    \/ \E newLayout \in ImageLayout : ChangeLayout(newLayout)
    \/ \E maxLevel \in 0..(MaxLevels - 1), recording \in BOOLEAN :
           GenerateMipmapsWithBlit(maxLevel, recording)

InitMipmap ==
    /\ RendererInit /\ DynamicBufferIdle /\ EntryPoolIdle /\ DescriptorPoolIdle
    /\ MipmapInit /\ LineLoopIdle /\ BufferIdle /\ ShaderIdle

SpecMipmap == InitMipmap /\ [][MipmapNext]_vars

ImageCommandsNext ==
    \/ \E newLayout \in UseLayouts : ChangeLayout(newLayout)
    \/ \E mipLevel \in UpdateLevels, baseArrayLayer \in 0..(MaxLayers - 1),
          allocated \in BOOLEAN :
           StageSubresourceUpdate(mipLevel, baseArrayLayer, allocated)
    \/ \E mipLevel \in UpdateLevels, baseArrayLayer \in 0..(MaxLayers - 1),
          srcLayout \in SourceLayouts :
           StageSubresourceUpdateFromImage(mipLevel, baseArrayLayer, srcLayout)
    \/ \E range \in FlushRanges, flushed \in BOOLEAN :
           FlushStagedUpdates(range[1], range[2], flushed)
    \/ \E levelIndex \in UpdateLevels, layerIndex \in 0..(MaxLayers - 1) :
           RemoveStagedUpdates(levelIndex, layerIndex)
    \/ ReleaseStagingBuffer
    \/ \E baseArrayLayer \in 0..(MaxLayers - 1) :
           ClearColorLayer(0, 1, baseArrayLayer, 1)
    \/ ClearDepthStencil
    \/ \E srcLayout \in CopySourceLayouts : Copy(FALSE, srcLayout)
    \/ Copy(TRUE, image.mCurrentLayout)

InitImageCommands ==
    /\ RendererInit /\ DynamicBufferIdle /\ EntryPoolIdle /\ DescriptorPoolIdle
    /\ ImageInit /\ LineLoopIdle /\ BufferIdle /\ ShaderIdle

SpecImageCommands == InitImageCommands /\ [][ImageCommandsNext]_vars

StagingNext ==
    \/ \E extents \in [width : ExtentSizes, height : ExtentSizes,
                       depth : ExtentSizes],
          inputPixelBytes \in PixelSizes, pixelBytes \in PixelSizes,
          skipRows \in SkipRows, outcome \in AllocateOutcomes :
           StageSubresourceUpdateOfSize(0, extents, inputPixelBytes, pixelBytes,
                                        skipRows, outcome)
    \/ \E levelIndex \in UpdateLevels, layerIndex \in 0..(MaxLayers - 1) :
           RemoveStagedUpdates(levelIndex, layerIndex)

InitStaging ==
    /\ RendererInit /\ StagingBufferInit /\ EntryPoolIdle /\ DescriptorPoolIdle
    /\ ImageInit /\ LineLoopIdle /\ BufferIdle /\ ShaderIdle

SpecStaging == InitStaging /\ [][StagingNext]_vars

LineLoopNext ==
    \/ \E clampedVertexCount \in VertexCounts, firstVertex \in FirstVertices,
          outcome \in AllocateOutcomes, flushed \in BOOLEAN :
         GetIndexBufferForDrawArrays(clampedVertexCount, firstVertex, outcome,
                                     flushed)
    \/ \E count \in VertexCounts \cup {UInt32Mod - 1} : Draw(count)
    \/ SubmitBatch

InitLineLoop ==
    /\ RendererInit /\ LineLoopInit /\ EntryPoolIdle /\ DescriptorPoolIdle
    /\ ImageIdle /\ BufferIdle /\ ShaderIdle

SpecLineLoop == InitLineLoop /\ [][LineLoopNext]_vars

ElementArrayNext ==
    \/ \E glIndexType \in DrawElementsTypes, indexCount \in IndexCounts,
          outcome \in AllocateOutcomes, flushed \in BOOLEAN :
         \E srcPtr \in SourceMemories(glIndexType, indexCount) :
            StreamIndices(glIndexType, indexCount, srcPtr, outcome, flushed)
    \/ \E glIndexType \in DrawElementsTypes, indexCount \in IndexCounts,
          outcome \in AllocateOutcomes, failing \in ElementArrayFailures,
          extraCopyBufferRegion \in BOOLEAN :
         \E srcPtr \in SourceMemories(glIndexType, indexCount) :
            GetIndexBufferForElementArrayBuffer(glIndexType, indexCount, srcPtr,
                                                outcome, failing,
                                                extraCopyBufferRegion)
    \/ SubmitBatch

InitElementArray ==
    /\ RendererInit /\ LineLoopInit /\ EntryPoolIdle /\ DescriptorPoolIdle
    /\ ImageIdle /\ BufferIdle /\ ShaderIdle

SpecElementArray == InitElementArray /\ [][ElementArrayNext]_vars

BufferNext ==
    \/ \E writeAccessType \in WriteAccesses : OnWrite(writeAccessType)
    \/ \E recording \in BOOLEAN : CopyFromBuffer(recording)
    \/ \E readAccessType \in ReadAccesses : OnRead(readAccessType)

InitBuffer ==
    /\ RendererInit /\ DynamicBufferIdle /\ EntryPoolIdle /\ DescriptorPoolIdle
    /\ ImageIdle /\ LineLoopIdle /\ BufferIdle /\ ShaderIdle

SpecBuffer == InitBuffer /\ [][BufferNext]_vars

ShaderNext ==
    \/ PrepareSourceAndReturnOptions
    \/ \E bound \in BOOLEAN, status \in CompileStatuses, infoLogLength \in InfoLogLengths, text \in LogTexts :
           CompileAsync(bound, status, infoLogLength, text)
    \/ \E status \in CompileStatuses, infoLogLength \in InfoLogLengths, text \in LogTexts :
           PostTranslateCompile(status, infoLogLength, text)

InitShader ==
    /\ RendererInit /\ DynamicBufferIdle /\ EntryPoolIdle /\ DescriptorPoolIdle
    /\ ImageIdle /\ LineLoopIdle /\ BufferIdle /\ ShaderIdle

SpecShader == InitShader /\ [][ShaderNext]_vars

----------------------------------------------------------------------------
(* DynamicBuffer: the ranges handed out.                                   *)

Overlap(a, b) ==
    /\ a.buffer = b.buffer
    /\ a.size > 0 /\ b.size > 0
    /\ a.offset < b.offset + b.size
    /\ b.offset < a.offset + a.size

\* C1: two allocations served from the same backing buffer never have
\* overlapping byte ranges [offset, offset + size).
C1_NoOverlappingRanges ==
    \A i, j \in 1..Len(dbLog.allocations) :
        i < j => ~Overlap(dbLog.allocations[i], dbLog.allocations[j])

----------------------------------------------------------------------------
(* DynamicallyGrowingPool: which slab findFreeEntryPool makes current.     *)

\* This step of the pool made the existing slab i current again: it is
\* the slab the call reports as reclaimed, or it became the current slab,
\* or its freedCount was reset.
MadeCurrent(i) ==
    /\ entryPool' # entryPool
    /\ \/ epLog'.reclaimed = i
       \/ entryPool'.mCurrentPool = i /\ entryPool.mCurrentPool # i
       \/ entryPool'.mPoolStats[i].freedCount
              < entryPool.mPoolStats[i].freedCount

\* C2: an existing slab is made current only if its freedCount equals the
\* slab capacity and its stamped serial is at most the last completed one.
C2_ReclaimOnlyFreedAndCompleted ==
    [][\A i \in 1..Len(entryPool.mPoolStats) :
          MadeCurrent(i) =>
              /\ entryPool.mPoolStats[i].freedCount = entryPool.mPoolSize
              /\ entryPool.mPoolStats[i].serial
                     <= renderer.lastCompletedQueueSerial]_vars

\* A slab was reclaimed while another, fully freed, was passed over because
\* its serial has not completed.
C2_Witness ==
    /\ epLog.reclaimed # 0
    /\ \E j \in 1..Len(entryPool.mPoolStats) :
          /\ j # epLog.reclaimed
          /\ entryPool.mPoolStats[j].freedCount = entryPool.mPoolSize
          /\ entryPool.mPoolStats[j].serial > renderer.lastCompletedQueueSerial

----------------------------------------------------------------------------
(* DynamicDescriptorPool                                                   *)

\* C3: no native pool is asked for more descriptor sets than it was
\* created with (its free-set counter never goes below zero), and no
\* request ends in the failed ASSERT of DescriptorPoolHelper::allocateSets.
C3_NeverOverCapacity ==
    /\ ~descriptorPool.aborted
    /\ \A i \in 1..Len(descriptorPool.mDescriptorPools) :
          descriptorPool.mDescriptorPools[i].valid =>
              descriptorPool.mDescriptorPools[i].taken
                  <= descriptorPool.mDescriptorPools[i].maxSets

\* C4: allocateNewPool initialises an existing pool only if no binding
\* references it and its serial is not in use; a pool is appended only if
\* no existing pool satisfies both.
C4_ReuseOnlyUnreferencedAndCompleted ==
    [][/\ \A i \in 1..Len(descriptorPool.mDescriptorPools) :
             (descriptorPool' # descriptorPool /\ dpLog'.pool = i) =>
                 /\ descriptorPool.mDescriptorPools[i].refCount = 0
                 /\ descriptorPool.mDescriptorPools[i].serial
                        <= renderer.lastCompletedQueueSerial
       /\ Len(descriptorPool'.mDescriptorPools)
              > Len(descriptorPool.mDescriptorPools) =>
             \A i \in 1..Len(descriptorPool.mDescriptorPools) :
                 \/ descriptorPool.mDescriptorPools[i].refCount > 0
                 \/ descriptorPool.mDescriptorPools[i].serial
                        > renderer.lastCompletedQueueSerial]_vars

\* A pool was reused while another one, no longer referenced, was passed
\* over because its serial is still in use.
C4_Witness ==
    /\ dpLog.newPool = "reused"
    /\ \E j \in 1..Len(descriptorPool.mDescriptorPools) :
          /\ j # dpLog.pool
          /\ descriptorPool.mDescriptorPools[j].refCount = 0
          /\ descriptorPool.mDescriptorPools[j].serial
                 > renderer.lastCompletedQueueSerial

----------------------------------------------------------------------------
(* ImageHelper::changeLayout                                               *)

\* C5: changeLayout from layout c to layout n records no barrier when
\* n = c and c is read-only in the table, and exactly one barrier in every
\* other case; isLayoutChangeNecessary is false exactly in the first case.
C5_ZeroOrOneBarrier ==
    [][imLog'.op = "changeLayout" =>
          LET c == image.mCurrentLayout
              n == imLog'.newLayout
              sameReadOnly ==
                  n = c /\ kImageMemoryBarrierData[c].isReadOnlyAccess
          IN  /\ sameReadOnly => commandBuffer' = <<>>
              /\ ~sameReadOnly =>
                     /\ Len(commandBuffer') = 1
                     /\ commandBuffer'[1].cmd = "pipelineBarrier"
              /\ isLayoutChangeNecessary(image, n) <=> ~sameReadOnly]_vars

\* The image was moved to a read-only layout and then asked for that
\* layout again: nothing was recorded.
C5_Witness ==
    /\ imLog.op = "changeLayout"
    /\ imLog.newLayout = "FragmentShaderReadOnly"
    /\ image.mCurrentLayout = "FragmentShaderReadOnly"
    /\ image.levelLayout[0] = "SHADER_READ_ONLY_OPTIMAL"
    /\ commandBuffer = <<>>

\* C6: a barrier recorded by changeLayout from c to n carries c's native
\* layout, exit stage and exit access, n's native layout, entry stage and
\* entry access, covers the levels [0, mLevelCount) and the layers
\* [0, mLayerCount), and leaves n as the tracked layout; without a barrier
\* the tracked layout stays.
C6_BarrierFromTable ==
    [][imLog'.op = "changeLayout" =>
          LET transitionFrom == kImageMemoryBarrierData[image.mCurrentLayout]
              transitionTo   == kImageMemoryBarrierData[imLog'.newLayout]
              barrier        == commandBuffer'[1]
          IN  IF commandBuffer' # <<>>
              THEN /\ barrier.image = image.handle
                   /\ barrier.oldLayout = transitionFrom.layout
                   /\ barrier.srcStageMask = transitionFrom.srcStageMask
                   /\ barrier.srcAccessMask = transitionFrom.srcAccessMask
                   /\ barrier.newLayout = transitionTo.layout
                   /\ barrier.dstStageMask = transitionTo.dstStageMask
                   /\ barrier.dstAccessMask = transitionTo.dstAccessMask
                   /\ barrier.baseMipLevel = 0
                   /\ barrier.levelCount = image.mLevelCount
                   /\ barrier.baseArrayLayer = 0
                   /\ barrier.layerCount = image.mLayerCount
                   /\ image'.mCurrentLayout = imLog'.newLayout
              ELSE image'.mCurrentLayout = image.mCurrentLayout]_vars

\* An image of several levels and layers went from ColorAttachment to
\* FragmentShaderReadOnly.
C6_Witness ==
    /\ imLog.op = "changeLayout"
    /\ Len(commandBuffer) = 1
    /\ commandBuffer[1].oldLayout = "COLOR_ATTACHMENT_OPTIMAL"
    /\ commandBuffer[1].newLayout = "SHADER_READ_ONLY_OPTIMAL"
    /\ image.mCurrentLayout = "FragmentShaderReadOnly"
    /\ image.mLevelCount > 1 /\ image.mLayerCount > 1

----------------------------------------------------------------------------
(* ImageHelper::flushStagedUpdates                                         *)

IsCopy(command) == command.cmd \in {"copyBufferToImage", "copyImage"}

\* A layout barrier on the image itself, not on the source image of an
\* update.
IsDestinationBarrier(command) ==
    command.cmd = "pipelineBarrier" /\ command.image = image.handle

\* This step is a flushStagedUpdates call that returned Continue.
FlushReturned ==
    imLog'.op = "flushStagedUpdates" /\ imLog'.result = "Continue"

\* C7: a flushStagedUpdates(baseLevel, levelCount) that succeeds removes
\* from the queue exactly the updates whose level lies in
\* [baseLevel, baseLevel + levelCount) and records one copy for each of
\* them, in order; the other updates stay queued, unchanged, without a copy.
C7_FlushExactlyInRange ==
    [][FlushReturned =>
          LET InRange(update) ==
                  /\ update.mipLevel >= imLog'.baseLevel
                  /\ update.mipLevel < imLog'.baseLevel + imLog'.levelCount
              OutOfRange(update) == ~InRange(update)
              applied == SelectSeq(image.mSubresourceUpdates, InRange)
              copies  == SelectSeq(commandBuffer', IsCopy)
          IN  /\ image'.mSubresourceUpdates =
                     SelectSeq(image.mSubresourceUpdates, OutOfRange)
              /\ Len(copies) = Len(applied)
              /\ \A i \in 1..Len(applied) :
                     /\ copies[i].update = applied[i].id
                     /\ copies[i].mipLevel = applied[i].mipLevel]_vars

\* A flush applied one update and kept another.
C7_Witness ==
    /\ imLog.op = "flushStagedUpdates" /\ imLog.result = "Continue"
    /\ Len(SelectSeq(commandBuffer, IsCopy)) = 1
    /\ Len(image.mSubresourceUpdates) = 1
    /\ image.staged = 2

\* C8 as stated: with k >= 1 updates in the range exactly one destination
\* barrier is recorded, before the first copy; with none in the range no
\* barrier is recorded and the tracked layout is unchanged.
C8_OneBarrierLazily ==
    [][FlushReturned =>
          LET InRange(update) ==
                  /\ update.mipLevel >= imLog'.baseLevel
                  /\ update.mipLevel < imLog'.baseLevel + imLog'.levelCount
              k        == Len(SelectSeq(image.mSubresourceUpdates, InRange))
              barriers == SelectSeq(commandBuffer', IsDestinationBarrier)
          IN  IF k >= 1
              THEN /\ Len(barriers) = 1
                   /\ IsDestinationBarrier(commandBuffer'[1])
              ELSE /\ Len(barriers) = 0
                   /\ image'.mCurrentLayout = image.mCurrentLayout]_vars

\* The copies recorded before position p of the commands.
CopiesBefore(commands, p) ==
    Cardinality({q \in 1..(p - 1) : IsCopy(commands[q])})

\* C8, amended: with k updates in the range, k destination barriers to
\* TransferDst are recorded, the i-th after i - 1 copies, the first from
\* the layout the image was in and the others from TransferDst, and the
\* tracked layout ends as TransferDst; with none in the range no barrier
\* is recorded and the tracked layout is unchanged.
C8_BarrierBeforeEachCopy ==
    [][FlushReturned =>
          LET InRange(update) ==
                  /\ update.mipLevel >= imLog'.baseLevel
                  /\ update.mipLevel < imLog'.baseLevel + imLog'.levelCount
              k         == Len(SelectSeq(image.mSubresourceUpdates, InRange))
              positions == {p \in 1..Len(commandBuffer') :
                               IsDestinationBarrier(commandBuffer'[p])}
          IN  /\ Cardinality(positions) = k
              /\ \A p \in positions :
                    /\ commandBuffer'[p].newLayout = "TRANSFER_DST_OPTIMAL"
                    /\ commandBuffer'[p].oldLayout =
                           IF CopiesBefore(commandBuffer', p) = 0
                           THEN getCurrentLayout(image)
                           ELSE "TRANSFER_DST_OPTIMAL"
                    /\ \A q \in positions :
                           p # q => CopiesBefore(commandBuffer', p)
                                        # CopiesBefore(commandBuffer', q)
              /\ \A p \in 1..Len(commandBuffer') :
                    IsCopy(commandBuffer'[p]) =>
                        \E q \in positions :
                            /\ q < p
                            /\ CopiesBefore(commandBuffer', q)
                                   = CopiesBefore(commandBuffer', p)
              /\ image'.mCurrentLayout =
                     IF k >= 1 THEN "TransferDst" ELSE image.mCurrentLayout]_vars

\* A flush applied two updates and recorded two destination barriers.
C8_Witness ==
    /\ imLog.op = "flushStagedUpdates" /\ imLog.result = "Continue"
    /\ Len(SelectSeq(commandBuffer, IsCopy)) = 2
    /\ Len(SelectSeq(commandBuffer, IsDestinationBarrier)) = 2

----------------------------------------------------------------------------
(* ImageHelper::generateMipmapsWithBlit                                    *)

IsBlit(command) == command.cmd = "blitImage"

GenerateReturned ==
    imLog.op = "generateMipmapsWithBlit" /\ imLog.result = "Continue"

\* max(1, size >> level)
MipExtent(size, level) ==
    IF size \div Pow2(level) >= 1 THEN size \div Pow2(level) ELSE 1

\* C9: for a base level of W x H and every k in 1..maxLevel, the one blit
\* into level k has the destination extent max(1, W >> k) x max(1, H >> k)
\* and the source extent max(1, W >> (k-1)) x max(1, H >> (k-1)); the
\* destination extent is what getSize reports for level k.
C9_MipExtents ==
    GenerateReturned =>
        LET blits == SelectSeq(commandBuffer, IsBlit)
        IN  /\ Len(blits) = imLog.maxLevel
            /\ \A k \in 1..imLog.maxLevel :
                  /\ blits[k].dstMipLevel = k
                  /\ blits[k].srcMipLevel = k - 1
                  /\ blits[k].dstExtent =
                         [width  |-> MipExtent(image.mExtents.width, k),
                          height |-> MipExtent(image.mExtents.height, k)]
                  /\ blits[k].srcExtent =
                         [width  |-> MipExtent(image.mExtents.width, k - 1),
                          height |-> MipExtent(image.mExtents.height, k - 1)]
                  /\ blits[k].dstExtent = getSize(image, k)

\* Mipmaps were generated down to a level that is 1 wide but more than 1
\* high, from a base level that is not a power of two.
C9_Witness ==
    /\ GenerateReturned
    /\ imLog.maxLevel = 2
    /\ image.mExtents = [width |-> 1, height |-> 5]
    /\ Len(SelectSeq(commandBuffer, IsBlit)) = 2

\* C10: after generateMipmapsWithBlit(maxLevel) on an image of L levels
\* every level 0..L-1 is in TRANSFER_SRC_OPTIMAL according to the barriers
\* recorded, the tracked layout is TransferSrc, and the only barriers to
\* TRANSFER_SRC_OPTIMAL are the maxLevel + 1 single-level ones.
C10_UniformTransferSrc ==
    GenerateReturned =>
        LET IsToTransferSrc(command) ==
                /\ command.cmd = "pipelineBarrier"
                /\ command.newLayout = "TRANSFER_SRC_OPTIMAL"
            toSrc == SelectSeq(commandBuffer, IsToTransferSrc)
        IN  /\ \A level \in 0..(image.mLevelCount - 1) :
                  image.levelLayout[level] = "TRANSFER_SRC_OPTIMAL"
            /\ image.mCurrentLayout = "TransferSrc"
            /\ Len(toSrc) = imLog.maxLevel + 1
            /\ \A i \in 1..Len(toSrc) : toSrc[i].levelCount = 1

----------------------------------------------------------------------------
(* LineLoopHelper: the closed loop.                                        *)

\* n sequential indices from first, then first again.
ClosedLoop(first, n) ==
    [i \in 1..(n + 1) |-> IF i <= n THEN first + i - 1 ELSE first]

\* getIndexBufferForDrawArrays returned Continue for a vertex range of which
\* no index up to first + count + 1 leaves uint32_t.
IndicesReturned ==
    /\ lineLoop.op = "getIndexBufferForDrawArrays"
    /\ lineLoop.result = "Continue"
    /\ UnsignedFirstVertex(lineLoop.firstVertex) + lineLoop.clampedVertexCount + 1
           < UInt32Mod

DrawRecorded ==
    /\ lineLoop.op = "Draw"
    /\ lineLoop.clampedVertexCount + 1 < UInt32Mod

----------------------------------------------------------------------------
(* BufferHelper: the barriers between accesses.                            *)

\* The union of the masks that were outstanding when the last call began.
OutstandingBefore ==
    bufLog.before.mCurrentReadAccess \cup bufLog.before.mCurrentWriteAccess

\* C12: onWrite(w) adds exactly one global memory barrier, from the union
\* of the outstanding read and write masks to w, if one of the two masks is
\* not empty, and no barrier if both are empty; afterwards the outstanding
\* write mask is w and the outstanding read mask is empty.
C12_OnWriteDrains ==
    bufLog.op = "onWrite" =>
        /\ IF OutstandingBefore # {}
           THEN bufLog.commands =
                    <<[cmd |-> "globalMemoryBarrier",
                       srcAccessMask |-> OutstandingBefore,
                       dstAccessMask |-> bufLog.access]>>
           ELSE bufLog.commands = <<>>
        /\ buffer.mCurrentWriteAccess = bufLog.access
        /\ buffer.mCurrentReadAccess = {}

\* onWrite found a write and a read outstanding and recorded its barrier.
C12_Witness ==
    /\ bufLog.op = "onWrite"
    /\ bufLog.before.mCurrentWriteAccess # {}
    /\ bufLog.before.mCurrentReadAccess # {}
    /\ Len(bufLog.commands) = 1

\* C13: every write operation (onWrite, copyFromBuffer) that follows another
\* one records, before its own command, a barrier whose source access mask
\* includes the access of the write operation before it.
C13_WritesAreDrained ==
    (/\ bufLog.op \in {"onWrite", "copyFromBuffer"}
     /\ bufLog.result = "Continue"
     /\ bufLog.prevWrite # {}) =>
        /\ Len(bufLog.commands) >= 1
        /\ bufLog.commands[1].cmd \in {"globalMemoryBarrier", "pipelineBarrier"}
        /\ bufLog.prevWrite \subseteq bufLog.commands[1].srcAccessMask

\* C14: after a successful copyFromBuffer, whatever the masks were, the
\* outstanding write mask is the transfer write access and the outstanding
\* read mask is empty; if an access was outstanding, a barrier from the
\* union of the outstanding masks to transfer write comes before the copy.
C14_CopyLeavesTransferWrite ==
    (bufLog.op = "copyFromBuffer" /\ bufLog.result = "Continue") =>
        /\ buffer.mCurrentWriteAccess = {"TRANSFER_WRITE"}
        /\ buffer.mCurrentReadAccess = {}
        /\ OutstandingBefore # {} =>
               /\ Len(bufLog.commands) = 2
               /\ bufLog.commands[1].cmd = "pipelineBarrier"
               /\ bufLog.commands[1].srcAccessMask = OutstandingBefore
               /\ bufLog.commands[1].dstAccessMask = {"TRANSFER_WRITE"}
               /\ bufLog.commands[2].cmd = "copyBuffer"

----------------------------------------------------------------------------
(* DynamicBuffer: when a new buffer is made, the cursor, the retired list. *)

\* The step is a successful DynamicBuffer::allocate on a current buffer.
AllocatedFromExisting ==
    /\ dynamicBuffer.mBuffer # 0
    /\ dbLog'.result = "Continue"
    /\ Len(dbLog'.allocations) = Len(dbLog.allocations) + 1

\* C15: allocate(size) serves the request from the current buffer whenever
\* cursor + roundUp(size, alignment) does not exceed the buffer size (an
\* exact fill included), and makes a new buffer, of the size
\* max(roundUp(size, alignment), minimumSize), only when the sum exceeds the
\* size or overflows.
C15_NewBufferOnlyWhenExceeded ==
    [][AllocatedFromExisting =>
         LET sizeInBytes    == dbLog'.allocations[Len(dbLog'.allocations)].size
             sizeToAllocate == roundUp(sizeInBytes, dynamicBuffer.mAlignment)
             sum            == dynamicBuffer.mNextAllocationOffset + sizeToAllocate
             exceeds        == sum > dynamicBuffer.mSize \/ sum >= SizeTMod
         IN  /\ dbLog'.newBuffer <=> exceeds
             /\ ~exceeds => /\ dynamicBuffer'.mBuffer = dynamicBuffer.mBuffer
                            /\ dynamicBuffer'.mSize = dynamicBuffer.mSize
             /\ exceeds => dynamicBuffer'.mSize =
                               Max(sizeToAllocate, dynamicBuffer.mMinSize)]_vars

\* C16: in every reachable state of a DynamicBuffer the cursor is at most
\* the current buffer size and the last flushed or invalidated offset is at
\* most the cursor.
C16_CursorWithinSize ==
    /\ dynamicBuffer.mNextAllocationOffset <= dynamicBuffer.mSize
    /\ dynamicBuffer.mLastFlushOrInvalidateOffset
           <= dynamicBuffer.mNextAllocationOffset

\* The buffers a DynamicBuffer holds: the retired ones, and the current one.
Retained(db) == Range(db.mRetainedBuffers)
Held(db) == Retained(db) \cup ({db.mBuffer} \ {0})

\* b is handed to the deferred-destroy sink by this step, stamped with the
\* serial that is current.
SunkNow(b) ==
    /\ [serial |-> getCurrentQueueSerial, buffer |-> b] \in renderer'.garbage
    /\ \A g \in renderer.garbage : g.buffer # b

\* The sink only grows, holds every buffer once, and takes buffers the
\* DynamicBuffer held, with the current serial.
SinkGrows ==
    /\ renderer.garbage \subseteq renderer'.garbage
    /\ \A g, h \in renderer'.garbage : g.buffer = h.buffer => g = h
    /\ \A g \in renderer'.garbage \ renderer.garbage :
          /\ g.buffer \in Held(dynamicBuffer)
          /\ g.buffer \notin Held(dynamicBuffer')
          /\ g.serial = getCurrentQueueSerial

\* The current buffer, once replaced by a new one, is in the retired list.
RetiredIsRetained ==
    (/\ dynamicBuffer.mBuffer # 0
     /\ dynamicBuffer'.mBuffer \notin {0, dynamicBuffer.mBuffer})
        => dynamicBuffer.mBuffer \in Retained(dynamicBuffer')

\* C17 as stated: a buffer retired by allocate is in the retired list and
\* leaves it only by being handed to the deferred-destroy sink, once,
\* stamped with the queue serial current at that call; it is never
\* destroyed synchronously.
C17_RetiredUntilReleased ==
    [][/\ SinkGrows
       /\ RetiredIsRetained
       /\ \A b \in Retained(dynamicBuffer) \ Retained(dynamicBuffer') :
              SunkNow(b)]_vars

\* The step leaves what DynamicBuffer::destroy leaves: no buffer, the
\* offsets and the size reset, nothing handed to the sink.
DestroyedNow ==
    /\ Held(dynamicBuffer') = {}
    /\ dynamicBuffer'.mSize = 0
    /\ dynamicBuffer'.mNextAllocationOffset = 0
    /\ renderer' = renderer

\* C17 amended: a retired buffer leaves the retired list, and the current
\* buffer the DynamicBuffer, only by release or releaseRetainedBuffers, which
\* hand it to the deferred-destroy sink, once, stamped with the queue serial
\* current at that call, or by destroy, which destroys every retired buffer
\* and the current one synchronously.
C17_RetiredUntilReleasedOrDestroyed ==
    [][/\ SinkGrows
       /\ RetiredIsRetained
       /\ \/ \A b \in Held(dynamicBuffer) \ Held(dynamicBuffer') : SunkNow(b)
          \/ DestroyedNow]_vars

\* A retired buffer and the current one were released after the serial
\* clock had advanced: both are in the sink with the later serial.
C17_Witness ==
    /\ Held(dynamicBuffer) = {}
    /\ Cardinality(renderer.garbage) = 2
    /\ \A g \in renderer.garbage : g.serial = 2

----------------------------------------------------------------------------
(* DynamicallyGrowingPool: the free of an entry.                           *)

\* The step frees one entry: the freedCount of its slab grows by one, the
\* slab is stamped with the queue serial that is current, and the other
\* slabs stay as they are.
FreeStampsOneSlab ==
    \A query \in epLog.queries \ epLog'.queries :
        /\ Len(entryPool'.mPoolStats) = Len(entryPool.mPoolStats)
        /\ entryPool'.mPoolStats[query.pool] =
               [freedCount |-> entryPool.mPoolStats[query.pool].freedCount + 1,
                serial |-> renderer.currentQueueSerial]
        /\ \A i \in 1..Len(entryPool.mPoolStats) :
               i # query.pool =>
                   entryPool'.mPoolStats[i] = entryPool.mPoolStats[i]

\* C18: freeing an entry of a slab increments the freedCount of that slab
\* alone and stamps that slab with the queue serial that is current, the
\* other slabs staying as they are; and an entry handed out before is handed
\* out again only when the batch that was current at the most recent free in
\* its slab has completed.
C18_FreedEntriesWaitForBatch ==
    [][/\ FreeStampsOneSlab
       /\ \A query \in epLog'.queries \ epLog.queries :
             query \in epLog.issued =>
                 epLog.freedAt[query.pool] <= renderer.lastCompletedQueueSerial
      ]_vars

\* C18, as the code has it: a free changes its slab alone, as above; a slab
\* is made current again only when the batch that was current at the most
\* recent free in it has completed; and an entry is handed out either from
\* the slab that this call made current or without having been freed since
\* its slab was last made current.  An entry is therefore handed out again
\* only after the batch that was current at its own last free has completed.
C18_FreedEntryWaitsForItsBatch ==
    [][/\ FreeStampsOneSlab
       /\ \A query \in epLog'.queries \ epLog.queries :
             IF epLog'.reclaimed # 0
             THEN /\ query.pool = epLog'.reclaimed
                  /\ epLog.freedAt[query.pool] <=
                         renderer.lastCompletedQueueSerial
             ELSE query \notin epLog.freed
      ]_vars

\* An entry is allocated for the second time, its slab having last seen a
\* free during batch 1, which has completed since.
C18_Witness ==
    /\ epLog.result = "Continue"
    /\ epLog.reclaimed # 0
    /\ epLog.freedAt[epLog.reclaimed] = 1
    /\ renderer.lastCompletedQueueSerial >= 1
    /\ \E query \in epLog.queries :
           /\ query.pool = epLog.reclaimed
           /\ query.entry = 0
    /\ \A f \in epLog.freed : f.pool # epLog.reclaimed

----------------------------------------------------------------------------
(* DynamicDescriptorPool::allocateSets and the bindings                    *)

\* The step is a call of allocateSets for binding b and descriptorSetCount
\* sets.
IsAllocateSets(descriptorSetCount, b) ==
    \E poolOk \in BOOLEAN, setsOk \in BOOLEAN, asserts \in BOOLEAN :
        AllocateSets(descriptorSetCount, b, poolOk, setsOk, asserts)

\* C19: when allocateSets moves a valid binding from one pool to another,
\* the serial of the old pool becomes the queue serial that is current and
\* the binding references the current pool of the manager; when the bound
\* pool has capacity for the request, the binding and the serial of every
\* pool stay as they are.
C19_MovedBindingStampsOldPool ==
    [][\A descriptorSetCount \in 0..MaxSetCount, b \in Bindings :
         (IsAllocateSets(descriptorSetCount, b) /\ bindings[b] # 0) =>
            LET old == descriptorPool.mDescriptorPools[bindings[b]]
            IN  /\ bindings'[b] # bindings[b] =>
                      /\ descriptorPool'.mDescriptorPools[bindings[b]].serial
                             = renderer.currentQueueSerial
                      /\ bindings'[b] = descriptorPool'.mCurrentPoolIndex
                /\ old.mFreeDescriptorSets >= descriptorSetCount =>
                      /\ bindings' = bindings
                      /\ Len(descriptorPool'.mDescriptorPools)
                             = Len(descriptorPool.mDescriptorPools)
                      /\ \A i \in 1..Len(descriptorPool.mDescriptorPools) :
                             descriptorPool'.mDescriptorPools[i].serial
                                 = descriptorPool.mDescriptorPools[i].serial
      ]_vars

\* A pool carries the serial of the second batch, so a binding was moved
\* away from it during that batch, and a binding references the current
\* pool, which is another one.
C19_Witness ==
    /\ dpLog.result = "Continue"
    /\ renderer.currentQueueSerial = 2
    /\ \E i \in 1..Len(descriptorPool.mDescriptorPools), b \in Bindings :
          /\ descriptorPool.mDescriptorPools[i].serial = 2
          /\ i # descriptorPool.mCurrentPoolIndex
          /\ bindings[b] = descriptorPool.mCurrentPoolIndex

\* allocateSets for binding b and descriptorSetCount sets has to call
\* allocateNewPool: neither the bound pool, if any, nor the current pool
\* has the capacity.
NeedsNewPool(descriptorSetCount, b) ==
    /\ bindings[b] # 0 =>
          descriptorPool.mDescriptorPools[bindings[b]].mFreeDescriptorSets
              < descriptorSetCount
    /\ descriptorPool.mDescriptorPools[descriptorPool.mCurrentPoolIndex]
          .mFreeDescriptorSets < descriptorSetCount

\* Every pool is referenced by a binding or carries a serial that has not
\* completed.
NoPoolReusable ==
    \A i \in 1..Len(descriptorPool.mDescriptorPools) :
        \/ descriptorPool.mDescriptorPools[i].refCount > 0
        \/ descriptorPool.mDescriptorPools[i].serial
               > renderer.lastCompletedQueueSerial

\* C20: when allocateSets needs a new pool, no pool is reusable and one
\* more pool brings the number of pools to kMaxPools, the call fails with
\* VK_ERROR_TOO_MANY_OBJECTS, takes no descriptor set from any pool and
\* leaves the bindings as they are.
C20_TooManyPoolsFails ==
    [][\A descriptorSetCount \in 0..MaxSetCount, b \in Bindings :
         (/\ IsAllocateSets(descriptorSetCount, b)
          /\ NeedsNewPool(descriptorSetCount, b)
          /\ NoPoolReusable
          /\ Len(descriptorPool.mDescriptorPools) + 1 = kMaxPools) =>
            /\ dpLog'.result = "TOO_MANY_OBJECTS"
            /\ bindings' = bindings
            /\ \A i \in 1..Len(descriptorPool.mDescriptorPools) :
                  descriptorPool'.mDescriptorPools[i]
                      = descriptorPool.mDescriptorPools[i]
            /\ \A i \in 1..Len(descriptorPool'.mDescriptorPools) :
                  i > Len(descriptorPool.mDescriptorPools) =>
                      descriptorPool'.mDescriptorPools[i].taken = 0
      ]_vars

\* A call has failed with the error at the ceiling while a binding was
\* valid; the binding still references one of the pools that existed.
C20_Witness ==
    /\ dpLog.result = "TOO_MANY_OBJECTS"
    /\ Len(descriptorPool.mDescriptorPools) = kMaxPools
    /\ \E b \in Bindings :
          /\ bindings[b] # 0
          /\ bindings[b] # descriptorPool.mCurrentPoolIndex

----------------------------------------------------------------------------
(* ImageHelper: clears, copies and the staged updates                      *)

\* The commands that write to a destination image.
IsTransferWrite(command) ==
    command.cmd \in {"clearColorImage", "clearDepthStencilImage",
                     "copyBufferToImage", "copyImage"}

\* The layout the command names for its destination.
DestinationLayout(command) ==
    IF command.cmd \in {"clearColorImage", "clearDepthStencilImage"}
    THEN command.imageLayout
    ELSE command.dstImageLayout

\* C21: every clear, image-to-image copy and staged-update copy is recorded
\* with the destination tracked in TransferDst and named in
\* TRANSFER_DST_OPTIMAL, and every image-to-image copy with the source
\* tracked in TransferSrc and named in TRANSFER_SRC_OPTIMAL.
C21_CommandsInTransferLayouts ==
    \A i \in 1..Len(commandBuffer) :
        IsTransferWrite(commandBuffer[i]) =>
            /\ image.mCurrentLayout = "TransferDst"
            /\ DestinationLayout(commandBuffer[i]) = "TRANSFER_DST_OPTIMAL"
            /\ commandBuffer[i].cmd = "copyImage" =>
                  /\ commandBuffer[i].srcImageLayout = "TRANSFER_SRC_OPTIMAL"
                  /\ imLog.op = "Copy" =>
                        imLog.srcImage.mCurrentLayout = "TransferSrc"

\* The ids, which count the stagings, grow along the sequence.
InStagingOrder(ids) ==
    \A i, j \in 1..Len(ids) : i < j => ids[i] < ids[j]

UpdateIds(updates) == [i \in 1..Len(updates) |-> updates[i].id]

CopiedIds(commands) ==
    LET copies == SelectSeq(commands, IsCopy)
    IN  [i \in 1..Len(copies) |-> copies[i].update]

\* C22: the pending queue is in staging order after every stage, remove,
\* flush and release; the copies a flush records are in staging order; the
\* updates a flush retains are updates that were pending, still in staging
\* order.
C22_StagedUpdatesFifo ==
    [][/\ InStagingOrder(UpdateIds(image'.mSubresourceUpdates))
       /\ imLog'.op = "flushStagedUpdates" =>
             /\ InStagingOrder(CopiedIds(commandBuffer'))
             /\ \A i \in 1..Len(image'.mSubresourceUpdates) :
                   \E j \in 1..Len(image.mSubresourceUpdates) :
                       image'.mSubresourceUpdates[i]
                           = image.mSubresourceUpdates[j]
      ]_vars

\* A flush has copied two updates of the same level, the one staged first
\* ahead of the other.
C22_Witness ==
    /\ imLog.op = "flushStagedUpdates" /\ imLog.result = "Continue"
    /\ CopiedIds(commandBuffer) = <<1, 2>>
    /\ \A i, j \in 1..Len(commandBuffer) :
          (IsCopy(commandBuffer[i]) /\ IsCopy(commandBuffer[j])) =>
              commandBuffer[i].mipLevel = commandBuffer[j].mipLevel

\* C23: every pending update names a mip level below mLevelCount and
\* layers inside [0, mLayerCount).
C23_PendingUpdatesInsideImage ==
    \A i \in 1..Len(image.mSubresourceUpdates) :
        LET update == image.mSubresourceUpdates[i]
        IN  /\ update.mipLevel < image.mLevelCount
            /\ update.baseArrayLayer >= 0
            /\ update.baseArrayLayer + update.layerCount <= image.mLayerCount

OwnedImages(updates) ==
    LET IsImage(update) == update.updateSource = "Image"
    IN  UpdateIds(SelectSeq(updates, IsImage))

\* C25: in every step the source images released are those of the
\* image-sourced updates that leave the pending queue in that step, each
\* released once; no source image is ever released twice, and none is
\* released while its update is pending.
C25_SourceImageReleasedOnce ==
    [][LET Leaves(update) ==
               /\ update.updateSource = "Image"
               /\ \A j \in 1..Len(image'.mSubresourceUpdates) :
                      image'.mSubresourceUpdates[j].id # update.id
       IN  /\ image'.released =
                  image.released
                  \o UpdateIds(SelectSeq(image.mSubresourceUpdates, Leaves))
           /\ \A i, j \in 1..Len(image'.released) :
                  i # j => image'.released[i] # image'.released[j]
           /\ \A i \in 1..Len(image'.released) :
                  \A j \in 1..Len(image'.mSubresourceUpdates) :
                      image'.released[i] # image'.mSubresourceUpdates[j].id
      ]_vars

\* A flush applied one image-sourced update, whose source image is
\* released, and retained another, whose source image is not.
C25_Witness ==
    /\ imLog.op = "flushStagedUpdates" /\ imLog.result = "Continue"
    /\ Len(image.released) = 1
    /\ Len(OwnedImages(image.mSubresourceUpdates)) = 1
    /\ CopiedIds(commandBuffer) = image.released

----------------------------------------------------------------------------
(* LineLoopHelper: the indices of an element array                          *)

\* The bytes of an index followed by zero bytes up to size bytes.
ZeroExtended(bytes, size) == bytes \o [k \in 1..(size - Len(bytes)) |-> 0]

\* The source indices of the last call, index i as its bytes.
SourceIndices ==
    LET size == sourceUnitSize(lineLoop.glIndexType)
    IN  [i \in 0..(lineLoop.indexCount - 1) |->
            SubSeq(lineLoop.source, size * i + 1, size * (i + 1))]

\* C27: streamIndices with indexCount source indices produces
\* indexCount + 1 indices: output i is source index i for i < indexCount,
\* zero-extended from 8 to 16 bits for byte indices and of the same width
\* otherwise, and the last output is source index 0.
C27_StreamedIndicesClosed ==
    (lineLoop.op = "streamIndices" /\ lineLoop.result = "Continue") =>
        LET size == unitSize(lineLoop.glIndexType)
        IN  /\ Len(lineLoop.indices) = lineLoop.indexCount + 1
            /\ \A i \in DOMAIN SourceIndices :
                  lineLoop.indices[i + 1] = ZeroExtended(SourceIndices[i], size)
            /\ 0 \in DOMAIN SourceIndices
            /\ lineLoop.indices[lineLoop.indexCount + 1]
                   = ZeroExtended(SourceIndices[0], size)

\* The positions of the calls of that name in the last call.
CallsOf(name) == {p \in 1..Len(lineLoop.calls) : lineLoop.calls[p] = name}

\* C26: getIndexBufferForElementArrayBuffer with byte indices calls finish
\* first, and maps and reads the source only when finish has returned
\* Continue, no batch being in flight then; with short and int indices it
\* calls neither finish nor mapImpl and copies the source with one
\* copyToBuffer of the indexCount indices and of the first index again.
C26_DrainBeforeHostRead ==
    lineLoop.op = "getIndexBufferForElementArrayBuffer" =>
        IF lineLoop.glIndexType = "UnsignedByte"
        THEN /\ lineLoop.calls[1] = "finish"
             /\ CallsOf("finish") = {1}
             /\ \A p \in CallsOf("mapImpl") \cup CallsOf("streamIndices") :
                   p > 1 /\ lineLoop.inFlight = {}
             /\ CallsOf("copyToBuffer") = {}
             /\ lineLoop.commands = <<>>
             /\ lineLoop.result = "Continue" =>
                   lineLoop.calls = <<"finish", "mapImpl", "streamIndices",
                                      "unmapImpl">>
        ELSE /\ CallsOf("finish") = {}
             /\ CallsOf("mapImpl") = {}
             /\ CallsOf("streamIndices") = {}
             /\ lineLoop.indices = <<>>
             /\ lineLoop.result = "Continue" =>
                   /\ Cardinality(CallsOf("copyToBuffer")) = 1
                   /\ Len(lineLoop.commands) = 1
                   /\ lineLoop.commands[1].cmd = "copyToBuffer"
                   /\ lineLoop.commands[1].copies[1].size =
                          lineLoop.indexCount * unitSize(lineLoop.glIndexType)
                   /\ lineLoop.commands[1].copies[2] =
                          [srcOffset |-> 0,
                           dstOffset |-> lineLoop.indexCount
                                             * unitSize(lineLoop.glIndexType),
                           size |-> unitSize(lineLoop.glIndexType)]

\* Byte indices were widened on the host while a batch had been submitted
\* and not completed before the call: finish has drained it.
C26_Witness ==
    /\ lineLoop.op = "getIndexBufferForElementArrayBuffer"
    /\ lineLoop.glIndexType = "UnsignedByte"
    /\ lineLoop.result = "Continue"
    /\ lineLoop.indexCount = MaxIndexCount
    /\ renderer.currentQueueSerial > 1
    /\ renderer.lastCompletedQueueSerial = renderer.currentQueueSerial - 1

----------------------------------------------------------------------------
(* DynamicBuffer: release and destroy                                      *)

\* What ~DynamicBuffer asserts, and no retired buffer either.
HoldsNoBuffer(db) == db.mBuffer = 0 /\ db.mRetainedBuffers = <<>>

\* DynamicBuffer::allocate on db can only make a buffer never seen before
\* current and hand out its offset 0.
AllocatesAfresh(db) ==
    \A sizeInBytes \in AllocSizes :
        LET call == allocate(db, sizeInBytes, "ok")
        IN  /\ call.enabled
            /\ call.needNew
            /\ call.ready.mBuffer = db.created + 1
            /\ call.ready.mNextAllocationOffset = 0
            /\ ~allocate(db, sizeInBytes, "nullBuffer").enabled

\* C28: whatever the state before, DynamicBuffer::release and
\* DynamicBuffer::destroy leave no current buffer and no retired buffer, so
\* the assertion of the destructor holds; the allocate that follows a
\* release makes a fresh buffer and returns its offset 0.
C28_ReleaseLeavesNothing ==
    [][/\ (Release \/ Destroy) =>
              /\ HoldsNoBuffer(dynamicBuffer')
              /\ AllocatesAfresh(dynamicBuffer')
       /\ \A sizeInBytes \in AllocSizes :
              (/\ HoldsNoBuffer(dynamicBuffer)
               /\ dynamicBuffer.mSize = 0
               /\ Allocate(sizeInBytes, "ok")) =>
                  /\ dbLog'.newBuffer
                  /\ dbLog'.allocations[Len(dbLog'.allocations)] =
                         [buffer |-> dynamicBuffer.created + 1,
                          offset |-> 0, size |-> sizeInBytes]]_vars

\* A range was handed out of a second buffer, small enough for the first
\* one, while the first buffer and no other is in the sink and none is
\* retained: the first was released in between.
C28_Witness ==
    /\ Len(dbLog.allocations) = 2
    /\ dbLog.allocations[1] = [buffer |-> 1, offset |-> 0, size |-> 1]
    /\ dbLog.allocations[2] = [buffer |-> 2, offset |-> 0, size |-> 1]
    /\ dbLog.result = "Continue"
    /\ dynamicBuffer.mBuffer = 2
    /\ dynamicBuffer.mMinSize = MinSizeInit
    /\ dynamicBuffer.mRetainedBuffers = <<>>
    /\ {g.buffer : g \in renderer.garbage} = {1}

----------------------------------------------------------------------------
(* ImageHelper: the sizes of a staged upload                               *)

\* The staging allocation size of the last call does not fit its type.
AllocationSizeOverflows ==
    \/ imLog.pixelBytes * imLog.extents.width >= UInt32Mod
    \/ imLog.pixelBytes * imLog.extents.width * imLog.extents.height
           * imLog.extents.depth >= SizeTMod

\* C29: a stageSubresourceUpdate whose staging allocation size
\* pixelBytes * width * height * depth overflows returns the error result,
\* having allocated no staging memory and appended no update.
C29_OverflowIsAnError ==
    (imLog.op = "stageSubresourceUpdate" /\ AllocationSizeOverflows) =>
        imLog.result = "Stop" /\ ~imLog.allocated

----------------------------------------------------------------------------
(* ImageHelper::generateMipmapsWithBlit: the order of its commands         *)

\* The layouts of the mip levels when command number position is recorded,
\* according to the barriers recorded before it.
LayoutsAt(position) ==
    ApplyBarriers([level \in 0..(image.mLevelCount - 1) |-> "UNDEFINED"],
                  SubSeq(commandBuffer, 1, position - 1), 1)

\* C30: generateMipmapsWithBlit(maxLevel) first records the barrier moving
\* all the levels to TRANSFER_DST_OPTIMAL and then, for k = 1..maxLevel in
\* this order, one barrier moving level k - 1 alone from TRANSFER_DST_OPTIMAL
\* to TRANSFER_SRC_OPTIMAL and right after it one blit from level k - 1 to
\* level k; when the blit is recorded level k - 1 is in TRANSFER_SRC_OPTIMAL,
\* written last by the blit before that barrier, and level k is in
\* TRANSFER_DST_OPTIMAL.
C30_BarrierThenBlit ==
    GenerateReturned =>
        /\ Len(commandBuffer) = 2 * imLog.maxLevel + 2
        /\ commandBuffer[1].cmd = "pipelineBarrier"
        /\ commandBuffer[1].newLayout = "TRANSFER_DST_OPTIMAL"
        /\ commandBuffer[1].baseMipLevel = 0
        /\ commandBuffer[1].levelCount = image.mLevelCount
        /\ \A k \in 1..imLog.maxLevel :
              /\ commandBuffer[2 * k].cmd = "pipelineBarrier"
              /\ commandBuffer[2 * k].baseMipLevel = k - 1
              /\ commandBuffer[2 * k].levelCount = 1
              /\ commandBuffer[2 * k].oldLayout = "TRANSFER_DST_OPTIMAL"
              /\ commandBuffer[2 * k].newLayout = "TRANSFER_SRC_OPTIMAL"
              /\ commandBuffer[2 * k + 1].cmd = "blitImage"
              /\ commandBuffer[2 * k + 1].srcMipLevel = k - 1
              /\ commandBuffer[2 * k + 1].dstMipLevel = k
              /\ LayoutsAt(2 * k + 1)[k - 1] = "TRANSFER_SRC_OPTIMAL"
              /\ LayoutsAt(2 * k + 1)[k] = "TRANSFER_DST_OPTIMAL"
              /\ commandBuffer[2 * k + 1].srcImageLayout = "TRANSFER_SRC_OPTIMAL"
              /\ commandBuffer[2 * k + 1].dstImageLayout = "TRANSFER_DST_OPTIMAL"
              /\ k > 1 => /\ commandBuffer[2 * k - 1].cmd = "blitImage"
                          /\ commandBuffer[2 * k - 1].dstMipLevel = k - 1

\* Mipmaps were generated for two levels below the base of an image that
\* was in use as a shader input.
C30_Witness ==
    /\ GenerateReturned
    /\ imLog.maxLevel = 2
    /\ Len(commandBuffer) = 6
    /\ commandBuffer[1].oldLayout = "SHADER_READ_ONLY_OPTIMAL"
    /\ commandBuffer[5].cmd = "blitImage"

----------------------------------------------------------------------------
(* DynamicallyGrowingPool: the exhausted slab                              *)

\* The slabs that are fully freed and whose serial has completed.
ReclaimableSlabs ==
    {i \in 1..Len(entryPool.mPoolStats) :
        /\ entryPool.mPoolStats[i].freedCount = entryPool.mPoolSize
        /\ entryPool.mPoolStats[i].serial <= renderer.lastCompletedQueueSerial}

CurrentSlabExhausted == entryPool.mCurrentFreeEntry >= entryPool.mPoolSize

\* The entry the allocation of this step hands out.
HandsOut(pool, entry) ==
    /\ epLog'.result = "Continue"
    /\ [pool |-> pool, entry |-> entry] \in epLog'.queries
    /\ epLog'.queries \ {[pool |-> pool, entry |-> entry]} \subseteq epLog.queries

\* C31: an allocation that finds the current slab exhausted creates a slab
\* only if no slab is reclaimable; if one is, it becomes the current slab
\* with its freedCount back at 0, the number of slabs stays, and the
\* allocation returns entry 0 of it.
C31_ReuseBeforeCreate ==
    [][\A nativeOk \in BOOLEAN :
          (CurrentSlabExhausted /\ AllocateQuery(nativeOk)) =>
              /\ Len(entryPool'.mPoolStats) > Len(entryPool.mPoolStats)
                     => ReclaimableSlabs = {}
              /\ ReclaimableSlabs # {} =>
                     /\ entryPool'.mCurrentPool \in ReclaimableSlabs
                     /\ Len(entryPool'.mPoolStats) = Len(entryPool.mPoolStats)
                     /\ entryPool'.mPoolStats[entryPool'.mCurrentPool].freedCount = 0
                     /\ entryPool'.mCurrentFreeEntry = 1
                     /\ HandsOut(entryPool'.mCurrentPool, 0)]_vars

\* A slab other than the last one created was reclaimed and its entry 0
\* handed out again, the pool holding as many slabs as it may.
C31_Witness ==
    /\ epLog.result = "Continue"
    /\ epLog.reclaimed = 1
    /\ Len(entryPool.mPoolStats) = MaxEntryPools
    /\ entryPool.mCurrentPool = 1
    /\ entryPool.mCurrentFreeEntry = 1
    /\ [pool |-> 1, entry |-> 0] \in epLog.queries

----------------------------------------------------------------------------
(* DynamicallyGrowingPool: the entries handed out                          *)

\* C33: an allocation never hands out an entry that is still allocated,
\* and the index of every entry handed out is below the slab capacity.
C33_EntriesDistinct ==
    [][\A nativeOk \in BOOLEAN :
          (AllocateQuery(nativeOk) /\ epLog'.result = "Continue") =>
              LET handed == [pool  |-> entryPool'.mCurrentPool,
                             entry |-> entryPool'.mCurrentFreeEntry - 1]
              IN  /\ handed \notin epLog.queries
                  /\ handed \in epLog'.queries
                  /\ handed.entry >= 0
                  /\ handed.entry < entryPool.mPoolSize
                  /\ handed.pool \in 1..Len(entryPool'.mPoolStats)]_vars

\* Entry 0 of a reclaimed slab is allocated again while the entries of the
\* other slab are all allocated still.
C33_Witness ==
    /\ epLog.result = "Continue"
    /\ epLog.reclaimed # 0
    /\ entryPool.mPoolSize = MaxPoolSize
    /\ [pool |-> epLog.reclaimed, entry |-> 0] \in epLog.queries
    /\ Cardinality(epLog.queries) = MaxPoolSize + 1

\* The entries handed out from slab i since it last became current: a slab
\* is left only when it is exhausted.
HandedOutSinceCurrent(i) ==
    IF i = entryPool.mCurrentPool
    THEN entryPool.mCurrentFreeEntry
    ELSE entryPool.mPoolSize

\* C34: with every entry freed at most once, the freedCount of a slab counts
\* the entries freed since the slab last became current, which are at most
\* the entries handed out from it since then, which are at most the slab
\* capacity; so a free finds freedCount below the capacity.
C34_FreedCountBounded ==
    /\ \A i \in 1..Len(entryPool.mPoolStats) :
          /\ entryPool.mPoolStats[i].freedCount
                 = Cardinality({f \in epLog.freed : f.pool = i})
          /\ entryPool.mPoolStats[i].freedCount <= HandedOutSinceCurrent(i)
          /\ HandedOutSinceCurrent(i) <= entryPool.mPoolSize
    /\ \A query \in epLog.queries :
          entryPool.mPoolStats[query.pool].freedCount < entryPool.mPoolSize

\* A slab that was reclaimed is fully freed a second time.
C34_Witness ==
    /\ epLog.result = "none"
    /\ epLog.queries = {}
    /\ entryPool.mCurrentPool = 1
    /\ Len(entryPool.mPoolStats) = MaxEntryPools
    /\ entryPool.mPoolSize = MaxPoolSize
    /\ entryPool.mPoolStats[1].freedCount = entryPool.mPoolSize

----------------------------------------------------------------------------
(* DynamicDescriptorPool: reuse and the batches in flight                  *)

\* Pool i is initialised again by this step: its native pool is destroyed
\* and a new one created (DescriptorPoolHelper::init, lines 437-452).
Recreated(i) ==
    /\ descriptorPool.mDescriptorPools[i].valid
    /\ dpLog'.newPool = "reused"
    /\ dpLog'.pool = i
    /\ descriptorPool' # descriptorPool

\* C32: whatever the calls of allocateSets on the bindings, the resets of
\* bindings and the advances of the serial clock, no native pool is
\* destroyed and created again by reuse while the batch that was current
\* when descriptor sets were last allocated from it has not completed.
C32_NoReuseWhileInFlight ==
    [][\A i \in 1..Len(descriptorPool.mDescriptorPools) :
          Recreated(i) =>
              descriptorPool.mDescriptorPools[i].usedAt
                  <= renderer.lastCompletedQueueSerial]_vars

\* C36: a DynamicDescriptorPool never holds more than kMaxPools entries,
\* calls that failed with the too-many-objects error included.
C36_PoolsWithinCeiling ==
    Len(descriptorPool.mDescriptorPools) <= kMaxPools

----------------------------------------------------------------------------
(* DynamicBuffer: allocate after a failed allocate                         *)

\* C35: once DynamicBuffer::allocate has returned an error, no later
\* allocate skips the creation of a buffer while there is no current
\* buffer: every call returns an error or a range of a live current buffer.
\* The members are left without a current buffer and with a size above 0
\* by a failed allocate only, and aborted marks the call that skipped.
C35_NoRangeWithoutBuffer ==
    ~dynamicBuffer.aborted

----------------------------------------------------------------------------
(* DynamicBuffer: the alignment of the offsets                             *)

----------------------------------------------------------------------------
(* LineLoopHelper: the number of indices written and drawn                 *)

\* C38: for every clampedVertexCount and firstVertex,
\* getIndexBufferForDrawArrays writes clampedVertexCount + 1 indices, the
\* number Draw makes the GPU read, also when firstVertex + clampedVertexCount
\* wraps around; and the number of indices Draw asks for is never 0.
C38_WritesWhatIsDrawn ==
    /\ (lineLoop.op = "getIndexBufferForDrawArrays"
            /\ lineLoop.result = "Continue") =>
           Len(LineLoopIndices(lineLoop.clampedVertexCount, lineLoop.firstVertex))
               = lineLoop.clampedVertexCount + 1
    /\ lineLoop.op = "Draw" => lineLoop.commands[1].indexCount # 0

----------------------------------------------------------------------------
(* ShaderGL: the native compiles of one cycle and the log handed back      *)

\* The native compiles made since the cycle began.
CompilesOfCycle ==
    SubSeq(shader.compiles, shader.cycleStart + 1, Len(shader.compiles))

\* C39: in a compile cycle that starts with prepareSourceAndReturnOptions
\* and in which compileAsync, if it runs, has returned before
\* postTranslateCompile is called, the native compile is made exactly once:
\* on the worker thread inside compileAsync when the worker context was
\* bound, otherwise on the main thread inside postTranslateCompile; and
\* postTranslateCompile returns true exactly when that compile succeeded.
C39_OneCompilePerCycle ==
    /\ shader.position \in {"prepared", "asyncDone"} =>
           /\ Len(CompilesOfCycle) = (IF shader.workerBound THEN 1 ELSE 0)
           /\ shader.mFallbackToMainThread = ~shader.workerBound
    /\ shader.position = "done" =>
           /\ Len(CompilesOfCycle) = 1
           /\ CompilesOfCycle[1].thread =
                  (IF shader.workerBound THEN "worker" ELSE "main")
           /\ shader.returned.value = (CompilesOfCycle[1].status # GL_FALSE)

\* A second cycle on the same object ended with its one compile made on the
\* worker thread and reported as a success, after a first cycle whose compile
\* ran on the main thread and failed.
C39_Witness ==
    /\ shader.position = "done"
    /\ shader.cycles = 2
    /\ Len(shader.compiles) = 2
    /\ shader.compiles[1].thread = "main"
    /\ shader.compiles[1].status = GL_FALSE
    /\ shader.compiles[2].thread = "worker"
    /\ shader.compiles[2].status # GL_FALSE
    /\ shader.returned.value

\* C40: whenever postTranslateCompile returns false, the info log it hands
\* back is the log of the most recent native compile of the shader, empty
\* when that compile produced none, and never the log of an earlier compile.
C40_LogOfLatestCompile ==
    (shader.position = "done" /\ ~shader.returned.value) =>
        shader.returned.infoLog = shader.compiles[Len(shader.compiles)].infoLog

=============================================================================
